---------------------------- MODULE Spec2Model ----------------------------
(***************************************************************************)
(* Verification model of the email support system (p07575/                 *)
(* email-support-system): the email-polling loop (handle_new_email), the   *)
(* operator command handlers (confirm / edit / regenerate / reply), the   *)
(* persistence layer (tickets, responses, drafts tables), the in-memory    *)
(* pending-confirmation store, the email classifier and the knowledge-base *)
(* retrieval service.                                                      *)
(***************************************************************************)
EXTENDS Integers, Sequences, FiniteSets, TLC

(***************************************************************************)
(* Bounds of the model.                                                    *)
(***************************************************************************)
MaxClock == 1        \* the wall clock runs over the seconds 0..MaxClock
MaxEmails == 2       \* inbound emails polled in one run
MaxCommands == 2     \* operator commands dispatched in one run
MaxUpdates == 1      \* commands the operator sends while the loops are watched
MaxDocs == 2         \* documents the knowledge directory can hold
MaxReloads == 2      \* knowledge-base reloads in one run
MaxSearches == 2     \* knowledge-base searches in one run
MaxText == 6         \* characters in a document given to _chunk_text
MaxChunkSize == 3    \* RAG_CHUNK_SIZE runs over 1..MaxChunkSize
MaxCorpus == 3       \* chunks in self.chunks when search is called
MaxQuery == 2        \* words in a search query
MaxTopK == 2         \* top_k runs over 1..MaxTopK
MaxContextCorpus == 6  \* chunks in self.chunks when a context is asked for
MaxContextQuery == 1   \* words in the query a context is asked for
MaxBody == 1         \* lines in the body of a model output
MaxShortBody == 2    \* email bodies of 0..MaxShortBody characters are classified
MaxAround == 2       \* and bodies up to MaxAround characters around max_body_len

(***************************************************************************)
(* Values.                                                                 *)
(***************************************************************************)
\* Texts are sequences of tokens, so that wrapping a body in the greeting
\* and the signature is a real operation and not the identity.
None == <<"<None>">>
EmptyText == <<>>
ApologyText ==
    <<"I apologize, but I'm unable to generate a response at this time. A support agent will assist you shortly.">>
ReplyTexts == {<<"r1">>}

\* Blanks and line ends; in a text given line by line, "\n" is an empty
\* line.
Whitespace == {" ", "\n"}

\* s[-n:] for n > 0.
Last(s, n) == SubSeq(s, IF Len(s) > n THEN Len(s) - n + 1 ELSE 1, Len(s))

RECURSIVE lstrip(_)
lstrip(s) == IF s # <<>> /\ Head(s) \in Whitespace THEN lstrip(Tail(s)) ELSE s

RECURSIVE rstrip(_)
rstrip(s) ==
    IF s # <<>> /\ s[Len(s)] \in Whitespace THEN rstrip(SubSeq(s, 1, Len(s) - 1)) ELSE s

\* str.strip()
strip(s) == rstrip(lstrip(s))

\* Python truthiness of an Optional[str]: None and "" are falsy.
Truthy(x) == x # None /\ x # EmptyText

\* f"Dear Customer,\n\n{body}\n\nThanks,\nThe StudyFate Team"
Wrap(body) ==
    <<"Dear Customer,", "\n">> \o body \o <<"\n", "Thanks,", "The StudyFate Team">>

\* f"TKT-{datetime.now().strftime('%Y%m%d%H%M%S')}": the id is the clock
\* second at which handle_new_email starts.
TicketIds == 0..MaxClock
TicketIdAt(second) == second

NULL == {}          \* a NULL DATETIME column; a set one is {second}
NoRow == [status |-> "<no row>", from_email |-> 0, response_time |-> NULL]
Statuses == {"received", "acknowledged", "archived", "forwarded_to_support",
             "pending_confirmation", "responded"}

VARIABLES
    now,                    \* wall clock, in seconds
    AUTO_FILTER_ENABLED,    \* settings.py, read once at start-up
    AUTO_REPLY_ENABLED,     \* settings.py, read once at start-up
    tickets,                \* table tickets: id -> row (or NoRow)
    responses,              \* table responses: rows in insertion order
    drafts,                 \* table drafts: ticket_id -> draft_text (or None)
    pending_confirmations,  \* telegram_service.pending_confirmations
    outbox,                 \* emails accepted by the SMTP server, in order
    chat,                   \* messages the email loop sent to the operator chat
    result,                 \* the last command's answer to the operator
    epc,                    \* position of the email loop in handle_new_email
    cur,                    \* locals of the running handle_new_email
    polled,                 \* number of inbound emails handed to the callback
    commands,               \* number of operator commands dispatched
    rag,                    \* the SimpleRAGService instance and its two users
    call                    \* the last call of a library function made on its own

vars == <<now, AUTO_FILTER_ENABLED, AUTO_REPLY_ENABLED, tickets, responses,
          drafts, pending_confirmations, outbox, chat, result, epc, cur, polled,
          commands, rag, call>>


(***************************************************************************)
(* Email classifier (email_classifier_service.py, openrouter_service.py).  *)
(***************************************************************************)
Categories == {"support_request", "promotion", "spam", "newsletter", "automated",
               "inquiry", "complaint", "feedback", "other"}

\* What the chat-completion call can come back with.  A JSON field is
\* described by the kind of value it holds:
\*   "missing"  the key is absent          "null"    JSON null
\*   "true" / "false"  JSON booleans       "zero"    the number 0
\*   "num"      a JSON number              "numstr"  a string holding a number
\*   "badstr"   a string holding no number "strfalse" the string "false"
\*   "unknown"  a string that names no category
LlmKinds == {"fail", "empty", "nonjson", "falsy_value", "truthy_nonobject", "object"}
CategoryFields == Categories \cup {"missing", "null", "unknown"}
NumberFields == {"missing", "null", "num", "numstr", "badstr"}
FlagFields == {"missing", "true", "false"}
DeleteFields == {"missing", "true", "false", "null", "zero", "strfalse"}
ReasonFields == {"missing", "str"}

LlmReply(kind, category, confidence, priority, respond, delete, archive, reason) ==
    [kind |-> kind, category |-> category, confidence |-> confidence,
     priority |-> priority, should_respond |-> respond, should_delete |-> delete,
     should_archive |-> archive, reason |-> reason]

NoFields(kind) ==
    LlmReply(kind, "missing", "missing", "missing", "missing", "missing", "missing", "missing")

LlmObjects ==
    {LlmReply("object", c, f, p, r, d, a, x) :
        c \in CategoryFields, f \in NumberFields, p \in NumberFields,
        r \in FlagFields, d \in DeleteFields, a \in FlagFields, x \in ReasonFields}

LlmReplies == {NoFields(k) : k \in LlmKinds \ {"object"}} \cup LlmObjects

\* call_openrouter_structured: None unless the content parses as JSON.
Parsed(o) == o.kind \in {"falsy_value", "truthy_nonobject", "object"}

\* `if result:` a dict is truthy iff it has at least one key.
EmptyObject(o) == o.kind = "object" /\ o = NoFields("object")
ResultTruthy(o) ==
    /\ Parsed(o)
    /\ o.kind # "falsy_value"
    /\ ~EmptyObject(o)

\* The exception Python raises while building the EmailClassification, in
\* evaluation order of the keyword arguments; "none" when it is built.
\*   EmailCategory(x): ValueError for anything that is no category value
\*   float(None), int(None): TypeError; float("abc"), int("abc"): ValueError
\*   result.get on a list, string or number: AttributeError
BuildError(o) ==
    IF o.kind = "truthy_nonobject" THEN "AttributeError"
    ELSE IF o.category \in {"null", "unknown"} THEN "ValueError"
    ELSE IF o.confidence = "null" THEN "TypeError"
    ELSE IF o.confidence = "badstr" THEN "ValueError"
    ELSE IF o.priority = "null" THEN "TypeError"
    ELSE IF o.priority = "badstr" THEN "ValueError"
    ELSE "none"

\* bool(result.get(key, default))
PyBool(field, default) ==
    CASE field = "missing" -> default
      [] field \in {"true", "num", "numstr", "badstr", "strfalse", "str"} -> TRUE
      [] OTHER -> FALSE

\* Confidence is kept in tenths (0.3 is 3, the .get default 0.5 is 5); a
\* number the model sends is taken to be 0.9, a priority it sends to be 1.
DefaultClassification ==
    [category |-> "other", confidence |-> 3, priority |-> 3,
     should_respond |-> TRUE, should_delete |-> FALSE, should_archive |-> FALSE,
     reason |-> "Classification failed, defaulting to manual review"]

BuiltClassification(o) ==
    [category |-> IF o.category = "missing" THEN "other" ELSE o.category,
     confidence |-> IF o.confidence = "missing" THEN 5 ELSE 9,
     priority |-> IF o.priority = "missing" THEN 3 ELSE 1,
     should_respond |-> PyBool(o.should_respond, TRUE),
     should_delete |-> PyBool(o.should_delete, FALSE),
     should_archive |-> PyBool(o.should_archive, FALSE),
     reason |-> IF o.reason = "missing" THEN "Classification completed" ELSE "str"]

\* Lines 56-57 of classify_email: the body as it goes into the prompt, a
\* text being the sequence of its characters.
max_body_len == 1500

truncated_body_unmarked(body) ==
    IF Len(body) > max_body_len THEN SubSeq(body, 1, max_body_len) ELSE body

truncated_body(body) ==
    IF Len(body) > max_body_len
    THEN SubSeq(body, 1, max_body_len) \o <<".", ".", ".">>
    ELSE body

\* classify_email: [raised |-> the uncaught exception or "none", c |-> result]
classify_email(o) ==
    IF ~ResultTruthy(o) THEN [raised |-> "none", c |-> DefaultClassification]
    ELSE IF BuildError(o) = "none" THEN [raised |-> "none", c |-> BuiltClassification(o)]
    ELSE IF BuildError(o) = "ValueError" THEN [raised |-> "none", c |-> DefaultClassification]
    ELSE [raised |-> BuildError(o), c |-> DefaultClassification]

\* is_spam_or_promotion that looks at the category only.
is_spam_or_promotion_by_category(c) ==
    c.category \in {"spam", "promotion", "newsletter"}

is_spam_or_promotion(c) ==
    \/ c.category \in {"spam", "promotion", "newsletter"}
    \/ c.should_delete

needs_response(c) == c.should_respond

\* Every EmailClassification the gates can be given.
Classifications ==
    [category : Categories, confidence : {3, 5, 9}, priority : {1, 3},
     should_respond : BOOLEAN, should_delete : BOOLEAN, should_archive : BOOLEAN,
     reason : {"str", "Classification completed"}]


(***************************************************************************)
(* Persistence (db_service.py).  Every operation is one transaction; it    *)
(* returns the new table contents.                                         *)
(***************************************************************************)
Exists(T, id) == id \in DOMAIN T /\ T[id] # NoRow

\* INSERT INTO tickets ... status 'received'; the primary key rejects a
\* second row with the same id, and a database fault adds nothing.
save_ticket_ok(T, id, db_ok) == db_ok /\ ~Exists(T, id)
save_ticket(T, id, from_email, db_ok) ==
    IF save_ticket_ok(T, id, db_ok)
    THEN [T EXCEPT ![id] = [status |-> "received", from_email |-> from_email,
                            response_time |-> NULL]]
    ELSE T

\* UPDATE tickets SET status = %s WHERE id = %s (no row: nothing changes)
update_ticket_status(T, id, status) ==
    IF Exists(T, id) THEN [T EXCEPT ![id].status = status] ELSE T

\* save_ticket_response, first statement:
\* UPDATE tickets SET status = 'responded', response_time = now WHERE id = %s
save_ticket_response_ticket(T, id, at, db_ok) ==
    IF db_ok /\ Exists(T, id)
    THEN [T EXCEPT ![id].status = "responded", ![id].response_time = {at}]
    ELSE T

\* save_ticket_response, second statement, same transaction:
\* INSERT INTO responses (ticket_id, response_text); the foreign key rejects
\* a response for a ticket that has no row.
save_ticket_response_rows(R, T, id, text, db_ok) ==
    IF db_ok /\ Exists(T, id)
    THEN Append(R, [ticket_id |-> id, response_text |-> text])
    ELSE R

\* INSERT INTO drafts ... ON DUPLICATE KEY UPDATE draft_text
save_draft_response(D, T, id, text) ==
    IF Exists(T, id) THEN [D EXCEPT ![id] = text] ELSE D

\* SELECT draft_text FROM drafts WHERE ticket_id = %s
get_draft_response(D, id) == D[id]

\* get_ticket attaches the latest response of the ticket, if any.
ResponsesOf(R, id) == SelectSeq(R, LAMBDA r : r.ticket_id = id)
HasResponse(R, id) == ResponsesOf(R, id) # <<>>

(***************************************************************************)
(* Pending-confirmation store (telegram_service.py, a module-level dict).  *)
(***************************************************************************)
get_pending_confirmation(P, id) == P[id]
\* set_pending_confirmation that keeps a draft already stored for the id.
set_pending_confirmation_first_wins(P, id, draft) ==
    IF P[id] = None THEN [P EXCEPT ![id] = draft] ELSE P

set_pending_confirmation(P, id, draft) == [P EXCEPT ![id] = draft]
clear_pending_confirmation(P, id) == [P EXCEPT ![id] = None]

\* The drafts the store is exercised with; the empty text is a draft too.
StoreDrafts == {<<"d1">>, <<"d2">>, EmptyText}

NoCall ==
    [fn |-> "none", id |-> 0, draft |-> None, ret |-> None,
     before |-> [id \in TicketIds |-> None]]

store_vars ==
    <<now, AUTO_FILTER_ENABLED, AUTO_REPLY_ENABLED, tickets, responses, drafts,
      outbox, chat, result, epc, cur, polled, commands, rag>>

\* A caller runs set_pending_confirmation(id, draft).
StoreSet ==
    /\ \E id \in TicketIds, draft \in StoreDrafts :
        /\ pending_confirmations' = set_pending_confirmation(pending_confirmations, id, draft)
        /\ call' = [fn |-> "set", id |-> id, draft |-> draft, ret |-> None,
                    before |-> pending_confirmations]
    /\ UNCHANGED store_vars

\* A caller runs clear_pending_confirmation(id).
StoreClear ==
    /\ \E id \in TicketIds :
        /\ pending_confirmations' = clear_pending_confirmation(pending_confirmations, id)
        /\ call' = [fn |-> "clear", id |-> id, draft |-> None, ret |-> None,
                    before |-> pending_confirmations]
    /\ UNCHANGED store_vars

\* A caller runs get_pending_confirmation(id).
StoreGet ==
    /\ \E id \in TicketIds :
        call' = [fn |-> "get", id |-> id, draft |-> None,
                 ret |-> get_pending_confirmation(pending_confirmations, id),
                 before |-> pending_confirmations]
    /\ UNCHANGED pending_confirmations
    /\ UNCHANGED store_vars

(***************************************************************************)
(* Outbound mail (email_service.py).                                       *)
(***************************************************************************)
\* send_email returns True iff the SMTP server accepted the message.
Delivered(box, to, kind, id, body, smtp_ok) ==
    IF smtp_ok
    THEN Append(box, [to |-> to, kind |-> kind, ticket_id |-> id, body |-> body])
    ELSE box


(***************************************************************************)
(* Draft generation (openrouter_service.py, ollama_service.py).            *)
(***************************************************************************)
\* What a completion call returns: None on any failure, or the text.  The
\* call made for a new email answers d1 or nothing but boilerplate; a call
\* made for an operator command answers d2.
FirstCompletions == {None, <<"d1">>, <<"Dear Customer,">>}
LaterCompletions == {None, <<"d2">>}

\* clean_ai_response (lines 214-246) on a completion given line by line.
\* Line 217: a <think> block is cut out up to the first </think>; the
\* line it stood on is left empty.
RECURSIVE remove_think(_)
remove_think(r) ==
    LET opens == {i \in 1..Len(r) : r[i] = "<think>" /\ \E j \in (i + 1)..Len(r) : r[j] = "</think>"}
    IN  IF opens = {} THEN r
        ELSE LET i == CHOOSE x \in opens : \A y \in opens : x <= y
                 j == CHOOSE x \in (i + 1)..Len(r) :
                         r[x] = "</think>" /\ \A y \in (i + 1)..(x - 1) : r[y] # "</think>"
             IN  SubSeq(r, 1, i - 1) \o <<"\n">> \o remove_think(SubSeq(r, j + 1, Len(r)))

\* Lines 220-227; "<fence>" is the line of three backquotes.
prefixes_to_remove ==
    <<"Here's an improved response:", "Here is the improved response:",
      "Here's my response:", "Response:", "---", "<fence>">>

\* str.replace(tok, "", 1) followed by strip(), for a line tok.
RemoveFirst(r, tok) ==
    LET at == {i \in 1..Len(r) : r[i] = tok}
        i == CHOOSE x \in at : \A y \in at : x <= y
    IN  IF at = {} THEN r ELSE strip(SubSeq(r, 1, i - 1) \o SubSeq(r, i + 1, Len(r)))

RECURSIVE remove_prefixes(_, _, _)
\* Lines 229-231: one pass over the prefixes, in the order of the list.
remove_prefixes(r, prefixes, i) ==
    IF i > Len(prefixes) THEN r
    ELSE remove_prefixes(IF strip(r) # <<>> /\ Head(strip(r)) = prefixes[i]
                         THEN RemoveFirst(r, prefixes[i])
                         ELSE r,
                         prefixes, i + 1)

\* Line 234: every "---" and every fence left is taken out of its line.
remove_markers(r) ==
    [i \in 1..Len(r) |-> IF r[i] \in {"---", "<fence>"} THEN "\n" ELSE r[i]]

\* re.sub of a greeting pattern anchored at the start: a greeting at the
\* very start of the text goes, with the whitespace behind it.
remove_greeting(r, greetings) ==
    IF r # <<>> /\ Head(r) \in greetings THEN lstrip(Tail(r)) ELSE r

\* Lines 237-241, in their order: "Dear Customer", "Hello <name>",
\* "Hi <name>", "Dear <name>", "Hey <name>".
remove_greetings(r) ==
    remove_greeting(
        remove_greeting(
            remove_greeting(
                remove_greeting(
                    remove_greeting(r, {"Dear Customer,"}),
                    {"Hello Bob,"}),
                {"Hi Bob,"}),
            {"Dear Customer,", "Dear Bob,"}),
        {"Hey Bob,"})

\* Line 242: "Thanks," and "The StudyFate Team" with nothing but
\* whitespace between and behind them, at the end of the text.
remove_signature(r) ==
    LET t == rstrip(r)
        thanks == {k \in 1..(Len(t) - 1) :
                      /\ t[k] = "Thanks,"
                      /\ \A m \in (k + 1)..(Len(t) - 1) : t[m] \in Whitespace}
    IN  IF t # <<>> /\ t[Len(t)] = "The StudyFate Team" /\ thanks # {}
        THEN SubSeq(t, 1, (CHOOSE k \in thanks : TRUE) - 1)
        ELSE r

RECURSIVE remove_regards(_, _)
\* Lines 243-244, one pass for "Best regards" and then one for
\* "Sincerely", each with re.MULTILINE: the sign-off goes with the
\* whitespace behind it and the line that follows, and leaves its line
\* empty.
remove_regards(r, signoff) ==
    IF r = <<>> THEN <<>>
    ELSE IF Head(r) = signoff
    THEN LET rest == lstrip(Tail(r))
         IN  <<"\n">> \o remove_regards(IF rest = <<>> THEN <<>> ELSE Tail(rest), signoff)
    ELSE <<Head(r)>> \o remove_regards(Tail(r), signoff)

\* Lines 242-244: the three sign-off substitutions in their order.
remove_signoffs(r) ==
    remove_regards(remove_regards(remove_signature(r), "Best regards,"), "Sincerely,")

\* clean_ai_response with the greetings looked for before the prefixes
\* are taken off.
clean_ai_response_greetings_first(text) ==
    strip(remove_signoffs(remove_markers(
        remove_prefixes(remove_greetings(remove_think(text)), prefixes_to_remove, 1))))

\* clean_ai_response (lines 214-246).
clean_ai_response(text) ==
    strip(remove_signoffs(remove_greetings(
        remove_markers(remove_prefixes(remove_think(text), prefixes_to_remove, 1)))))

\* generate_ai_response: the cleaned completion, or the apology when the
\* call returned nothing.
generate_ai_response(completion) ==
    IF Truthy(completion) THEN clean_ai_response(completion) ELSE ApologyText

\* ollama_service.py lines 105-114.
ollama_prefixes_to_remove ==
    <<"Here's an improved response:", "Here is the improved response:",
      "Improved response:", "I would respond with:", "I would say:",
      "Response:", "---", "<fence>">>

\* clean_ollama_response (ollama_service.py lines 99-127): the think
\* block, the prefixes of its own list, the markers, a leading "Dear
\* Customer," and the trailing team signature.
clean_ollama_response(text) ==
    strip(remove_signature(remove_greeting(
        remove_markers(remove_prefixes(remove_think(text), ollama_prefixes_to_remove, 1)),
        {"Dear Customer,"})))

\* What the Ollama server did with the request of lines 65-83: the
\* request raised (no connection, a timeout of the transport, an error of
\* the ollama library), or an answer came back with a status and a JSON
\* body that has a response text or none.
NoResponse == <<"<no response>">>
OllamaTexts == {<<"Response:", "Dear Customer,", "d2">>}
OllamaAnswers ==
    {[kind |-> "raised", status |-> 0, response |-> NoResponse]}
        \cup [kind : {"answer"}, status : {200, 500}, response : OllamaTexts \cup {NoResponse}]

\* Lines 65-83: the completion taken from the answer, None standing for
\* an exception.  A status other than 200 raises (lines 73-74); a body
\* without "response" gives the empty text (line 77); a message without
\* content raises KeyError (line 83).
ollama_completion(answer, slash) ==
    IF answer.kind = "raised" THEN None
    ELSE IF slash
    THEN IF answer.status # 200 THEN None
         ELSE IF answer.response = NoResponse THEN EmptyText
         ELSE answer.response
    ELSE IF answer.status # 200 \/ answer.response = NoResponse THEN None
         ELSE answer.response

\* process_with_deepseek with the operator's text cleaned like a
\* completion when the call raised.
process_with_deepseek_cleaning_original(response_text, completion) ==
    IF completion = None THEN Wrap(clean_ollama_response(response_text))
    ELSE Wrap(clean_ollama_response(completion))

\* process_with_deepseek (lines 61-97): the cleaned completion wrapped in
\* the envelope, or the operator's own text wrapped when anything in the
\* try block raised.
process_with_deepseek(response_text, completion) ==
    IF completion = None THEN Wrap(response_text)
    ELSE Wrap(clean_ollama_response(completion))


(***************************************************************************)
(* Email loop: main.handle_new_email, one action per blocking call.        *)
(***************************************************************************)
Unclassified ==
    [category |-> "unclassified", confidence |-> 0, priority |-> 0,
     should_respond |-> TRUE, should_delete |-> FALSE, should_archive |-> FALSE,
     reason |-> "AUTO_FILTER_ENABLED is off"]

NoEmail ==
    [ticket_id |-> 0, from_email |-> 0, llm |-> NoFields("fail"),
     cls |-> Unclassified, raised |-> "none", draft |-> None]

\* The replies of the classifier model the ticket lifecycle is explored
\* with: a spam verdict, an archive verdict, a genuine request and a reply
\* whose confidence is null.
LifecycleReplies ==
    {LlmReply("object", "spam", "num", "num", "false", "true", "false", "str"),
     LlmReply("object", "automated", "num", "num", "false", "false", "true", "str"),
     LlmReply("object", "support_request", "num", "num", "true", "false", "false", "str"),
     LlmReply("object", "inquiry", "null", "num", "true", "false", "false", "str")}

\* Every well-formed reply: one classification per category and flags.
WellFormedReplies ==
    {LlmReply("object", c, "num", "num", r, d, a, "str") :
        c \in Categories, r \in {"true", "false"}, d \in {"true", "false"},
        a \in {"true", "false"}}

\* Poll with the two gates of lines 72 and 80 in the other order: the
\* needs-response check is consulted first.
Poll_needs_response_first(replies) ==
    /\ epc = "idle"
    /\ polled < MaxEmails
    /\ polled' = polled + 1
    /\ \E o \in replies :
        LET r == classify_email(o)
            email == [ticket_id |-> TicketIdAt(now), from_email |-> polled + 1,
                      llm |-> IF AUTO_FILTER_ENABLED THEN o ELSE NoFields("fail"),
                      cls |-> IF AUTO_FILTER_ENABLED THEN r.c ELSE Unclassified,
                      raised |-> IF AUTO_FILTER_ENABLED THEN r.raised ELSE "none",
                      draft |-> None]
        IN  /\ cur' = email
            /\ IF ~AUTO_FILTER_ENABLED
               THEN epc' = "save" /\ chat' = chat
               ELSE IF r.raised # "none"
               THEN epc' = "idle" /\ chat' = chat
               ELSE IF ~needs_response(r.c)
               THEN epc' = "archive_save" /\ chat' = chat
               ELSE IF is_spam_or_promotion(r.c)
               THEN /\ epc' = "idle"
                    /\ chat' = Append(chat, [kind |-> "filtered",
                                             ticket_id |-> email.ticket_id,
                                             from_email |-> email.from_email])
               ELSE epc' = "save" /\ chat' = chat
    /\ UNCHANGED <<now, AUTO_FILTER_ENABLED, AUTO_REPLY_ENABLED, tickets, responses,
                   drafts, pending_confirmations, outbox, result, commands,
                   rag, call>>

\* Lines 55-86: the ticket id is taken from the clock, the email is
\* classified, a filterable email is dropped with a notice to the operator
\* chat, an email needing no response goes to the archive path.
Poll(replies) ==
    /\ epc = "idle"
    /\ polled < MaxEmails
    /\ polled' = polled + 1
    /\ \E o \in replies :
        LET r == classify_email(o)
            email == [ticket_id |-> TicketIdAt(now), from_email |-> polled + 1,
                      llm |-> IF AUTO_FILTER_ENABLED THEN o ELSE NoFields("fail"),
                      cls |-> IF AUTO_FILTER_ENABLED THEN r.c ELSE Unclassified,
                      raised |-> IF AUTO_FILTER_ENABLED THEN r.raised ELSE "none",
                      draft |-> None]
        IN  /\ cur' = email
            /\ IF ~AUTO_FILTER_ENABLED
               THEN epc' = "save" /\ chat' = chat
               ELSE IF r.raised # "none"
               THEN epc' = "idle" /\ chat' = chat
               ELSE IF is_spam_or_promotion(r.c)
               THEN /\ epc' = "idle"
                    /\ chat' = Append(chat, [kind |-> "filtered",
                                             ticket_id |-> email.ticket_id,
                                             from_email |-> email.from_email])
               ELSE IF ~needs_response(r.c)
               THEN epc' = "archive_save" /\ chat' = chat
               ELSE epc' = "save" /\ chat' = chat
    /\ UNCHANGED <<now, AUTO_FILTER_ENABLED, AUTO_REPLY_ENABLED, tickets, responses,
                   drafts, pending_confirmations, outbox, result, commands,
                   rag, call>>

\* Line 83: save_ticket, its result ignored.
ArchiveSave ==
    /\ epc = "archive_save"
    /\ \E db_ok \in BOOLEAN :
        tickets' = save_ticket(tickets, cur.ticket_id, cur.from_email, db_ok)
    /\ epc' = "archive_status"
    /\ UNCHANGED <<now, AUTO_FILTER_ENABLED, AUTO_REPLY_ENABLED, responses, drafts,
                   pending_confirmations, outbox, chat, result, cur, polled, commands,
                   rag, call>>

\* Line 84: update_ticket_status(ticket_id, "archived").
ArchiveStatus ==
    /\ epc = "archive_status"
    /\ tickets' = update_ticket_status(tickets, cur.ticket_id, "archived")
    /\ epc' = "idle"
    /\ UNCHANGED <<now, AUTO_FILTER_ENABLED, AUTO_REPLY_ENABLED, responses, drafts,
                   pending_confirmations, outbox, chat, result, cur, polled, commands,
                   rag, call>>

\* Lines 99-102: save_ticket; the handler returns when it fails.
SaveTicket ==
    /\ epc = "save"
    /\ \E db_ok \in BOOLEAN :
        /\ tickets' = save_ticket(tickets, cur.ticket_id, cur.from_email, db_ok)
        /\ epc' = IF save_ticket_ok(tickets, cur.ticket_id, db_ok) THEN "ack" ELSE "idle"
    /\ UNCHANGED <<now, AUTO_FILTER_ENABLED, AUTO_REPLY_ENABLED, responses, drafts,
                   pending_confirmations, outbox, chat, result, cur, polled, commands,
                   rag, call>>

\* Lines 105, 137-147: send_acknowledgment; the status is updated only
\* when the mail was accepted.
Acknowledge ==
    /\ epc = "ack"
    /\ \E smtp_ok \in BOOLEAN :
        /\ outbox' = Delivered(outbox, cur.from_email, "acknowledgment",
                               cur.ticket_id, EmptyText, smtp_ok)
        /\ tickets' = IF smtp_ok
                      THEN update_ticket_status(tickets, cur.ticket_id, "acknowledged")
                      ELSE tickets
    /\ epc' = IF AUTO_REPLY_ENABLED THEN "draft" ELSE "forward"
    /\ UNCHANGED <<now, AUTO_FILTER_ENABLED, AUTO_REPLY_ENABLED, responses, drafts,
                   pending_confirmations, chat, result, cur, polled, commands,
                   rag, call>>

\* Lines 109-127: the draft is generated and, when truthy, persisted.
GenerateDraft ==
    /\ epc = "draft"
    /\ \E completion \in FirstCompletions :
        LET draft == generate_ai_response(completion)
        IN  /\ cur' = [cur EXCEPT !.draft = draft]
            /\ drafts' = IF Truthy(draft)
                         THEN save_draft_response(drafts, tickets, cur.ticket_id, draft)
                         ELSE drafts
    /\ epc' = "forward"
    /\ UNCHANGED <<now, AUTO_FILTER_ENABLED, AUTO_REPLY_ENABLED, tickets, responses,
                   pending_confirmations, outbox, chat, result, polled, commands,
                   rag, call>>

\* Lines 130-133 with telegram_service lines 177-222 and 251-297: the
\* draft is stored as pending and the ticket is shown to the operator.
Forward ==
    /\ epc = "forward"
    /\ IF AUTO_REPLY_ENABLED /\ Truthy(cur.draft)
       THEN /\ pending_confirmations' =
                  set_pending_confirmation(pending_confirmations, cur.ticket_id, cur.draft)
            /\ chat' = Append(chat, [kind |-> "forward_with_draft",
                                     ticket_id |-> cur.ticket_id,
                                     from_email |-> cur.from_email])
       ELSE /\ pending_confirmations' = pending_confirmations
            /\ chat' = Append(chat, [kind |-> "forward",
                                     ticket_id |-> cur.ticket_id,
                                     from_email |-> cur.from_email])
    /\ epc' = "forward_status"
    /\ UNCHANGED <<now, AUTO_FILTER_ENABLED, AUTO_REPLY_ENABLED, tickets, responses,
                   drafts, outbox, result, cur, polled, commands,
                   rag, call>>

\* telegram_service lines 223 and 298: update_ticket_status after the send.
ForwardStatus ==
    /\ epc = "forward_status"
    /\ tickets' = update_ticket_status(tickets, cur.ticket_id,
                     IF AUTO_REPLY_ENABLED /\ Truthy(cur.draft)
                     THEN "pending_confirmation" ELSE "forwarded_to_support")
    /\ epc' = "idle"
    /\ UNCHANGED <<now, AUTO_FILTER_ENABLED, AUTO_REPLY_ENABLED, responses, drafts,
                   pending_confirmations, outbox, chat, result, cur, polled, commands,
                   rag, call>>

\* The wall clock reaches the next second.
Tick ==
    /\ now < MaxClock
    /\ now' = now + 1
    /\ UNCHANGED <<AUTO_FILTER_ENABLED, AUTO_REPLY_ENABLED, tickets, responses, drafts,
                   pending_confirmations, outbox, chat, result, epc, cur, polled, commands,
                   rag, call>>


(***************************************************************************)
(* Command loop: handlers/telegram_handlers.py, one action per command.    *)
(***************************************************************************)
\* What the handler tells the operator last (bot.reply_to / bot.send_message).
NoResult == "none"

ResponseEmails(box) == SelectSeq(box, LAMBDA m : m.kind = "response")

\* telegram_polling_loop hands one more command to its handler.
Dispatch ==
    /\ commands < MaxCommands
    /\ commands' = commands + 1

\* The draft confirm and edit work on: the in-memory one, else the
\* persisted one (lines 42-46 and 95-97).
DraftFor(id) ==
    IF Truthy(get_pending_confirmation(pending_confirmations, id))
    THEN get_pending_confirmation(pending_confirmations, id)
    ELSE get_draft_response(drafts, id)

\* SendAndRecord with the result of send_response_email ignored: the
\* response is recorded and success reported whether or not it was sent.
SendAndRecord_unchecked(id, body, smtp_ok, db_ok, clear) ==
    /\ outbox' = Delivered(outbox, tickets[id].from_email, "response", id, body, smtp_ok)
    /\ tickets' = save_ticket_response_ticket(tickets, id, now, db_ok)
    /\ responses' = save_ticket_response_rows(responses, tickets, id, body, db_ok)
    /\ pending_confirmations' =
          IF clear
          THEN clear_pending_confirmation(pending_confirmations, id)
          ELSE pending_confirmations
    /\ result' = "sent"

\* SendAndRecord with clear_pending_confirmation called whether or not
\* the mail was sent.
SendAndRecord_clearing(id, body, smtp_ok, db_ok, clear) ==
    /\ outbox' = Delivered(outbox, tickets[id].from_email, "response", id, body, smtp_ok)
    /\ tickets' = IF smtp_ok
                  THEN save_ticket_response_ticket(tickets, id, now, db_ok)
                  ELSE tickets
    /\ responses' = IF smtp_ok
                    THEN save_ticket_response_rows(responses, tickets, id, body, db_ok)
                    ELSE responses
    /\ pending_confirmations' =
          IF clear
          THEN clear_pending_confirmation(pending_confirmations, id)
          ELSE pending_confirmations
    /\ result' = IF smtp_ok THEN "sent" ELSE "send_failed"

\* Lines 66-71, 120-125, 246-251: send_response_email, then on success
\* save_ticket_response and (confirm, edit) clear_pending_confirmation.
SendAndRecord(id, body, smtp_ok, db_ok, clear) ==
    /\ outbox' = Delivered(outbox, tickets[id].from_email, "response", id, body, smtp_ok)
    /\ tickets' = IF smtp_ok
                  THEN save_ticket_response_ticket(tickets, id, now, db_ok)
                  ELSE tickets
    /\ responses' = IF smtp_ok
                    THEN save_ticket_response_rows(responses, tickets, id, body, db_ok)
                    ELSE responses
    /\ pending_confirmations' =
          IF smtp_ok /\ clear
          THEN clear_pending_confirmation(pending_confirmations, id)
          ELSE pending_confirmations
    /\ result' = IF smtp_ok THEN "sent" ELSE "send_failed"

handle_confirm(id) ==
    /\ Dispatch
    /\ IF ~Truthy(DraftFor(id))
       THEN /\ result' = "no_pending_draft"
            /\ UNCHANGED <<tickets, responses, pending_confirmations, outbox>>
       ELSE IF ~Exists(tickets, id)
       THEN /\ result' = "not_found"
            /\ UNCHANGED <<tickets, responses, pending_confirmations, outbox>>
       ELSE \E smtp_ok \in BOOLEAN, db_ok \in BOOLEAN :
               SendAndRecord(id, Wrap(DraftFor(id)), smtp_ok, db_ok, TRUE)
    /\ UNCHANGED <<now, AUTO_FILTER_ENABLED, AUTO_REPLY_ENABLED, drafts, chat, epc,
                   cur, polled,
                   rag, call>>

handle_edit(id, completion) ==
    /\ Dispatch
    /\ IF ~Exists(tickets, id)
       THEN /\ result' = "not_found"
            /\ UNCHANGED <<tickets, responses, pending_confirmations, outbox>>
       ELSE \E smtp_ok \in BOOLEAN, db_ok \in BOOLEAN :
               SendAndRecord(id, Wrap(generate_ai_response(completion)),
                             smtp_ok, db_ok, TRUE)
    /\ UNCHANGED <<now, AUTO_FILTER_ENABLED, AUTO_REPLY_ENABLED, drafts, chat, epc,
                   cur, polled,
                   rag, call>>

\* handle_regenerate without the get_ticket check of lines 141-145.
handle_regenerate_unchecked(id, completion) ==
    /\ Dispatch
    /\ result' = "new_draft"
    /\ pending_confirmations' =
          set_pending_confirmation(pending_confirmations, id,
                                   generate_ai_response(completion))
    /\ UNCHANGED <<now, AUTO_FILTER_ENABLED, AUTO_REPLY_ENABLED, tickets, responses,
                   drafts, outbox, chat, epc, cur, polled, rag, call>>

handle_regenerate(id, completion) ==
    /\ Dispatch
    /\ IF ~Exists(tickets, id)
       THEN /\ result' = "not_found"
            /\ pending_confirmations' = pending_confirmations
       ELSE /\ result' = "new_draft"
            /\ pending_confirmations' =
                  set_pending_confirmation(pending_confirmations, id,
                                           generate_ai_response(completion))
    /\ UNCHANGED <<now, AUTO_FILTER_ENABLED, AUTO_REPLY_ENABLED, tickets, responses,
                   drafts, outbox, chat, epc, cur, polled,
                   rag, call>>

handle_reply(id, response_text, completion) ==
    /\ Dispatch
    /\ IF ~Exists(tickets, id)
       THEN /\ result' = "not_found"
            /\ UNCHANGED <<tickets, responses, pending_confirmations, outbox>>
       ELSE \E smtp_ok \in BOOLEAN, db_ok \in BOOLEAN :
               SendAndRecord(id, process_with_deepseek(response_text, completion),
                             smtp_ok, db_ok, FALSE)
    /\ UNCHANGED <<now, AUTO_FILTER_ENABLED, AUTO_REPLY_ENABLED, drafts, chat, epc,
                   cur, polled,
                   rag, call>>

Confirm == \E id \in TicketIds : handle_confirm(id)
Edit == \E id \in TicketIds, completion \in LaterCompletions : handle_edit(id, completion)
Regenerate == \E id \in TicketIds, completion \in LaterCompletions :
    handle_regenerate(id, completion)
Reply == \E id \in TicketIds, text \in ReplyTexts, completion \in LaterCompletions :
    handle_reply(id, text, completion)

(***************************************************************************)
(* save_ticket_response statement by statement (db_service.py lines        *)
(* 130-152).  The pooled connection does not autocommit: the two           *)
(* statements reach the tables at connection.commit(), and a connection    *)
(* closed or lost before that leaves the tables as they were.  `call`      *)
(* holds the locals of the running call and the statements it has run.     *)
(***************************************************************************)
tx_frame ==
    <<now, AUTO_FILTER_ENABLED, AUTO_REPLY_ENABLED, drafts, pending_confirmations,
      outbox, chat, result, epc, cur, polled, rag>>

InTx(pc) == call.fn = "save_ticket_response" /\ call.pc = pc

TxReturn(ret) == [call EXCEPT !.pc = "returned", !.ret = ret]

\* Lines 133-134: a handler calls save_ticket_response; get_connection
\* gives a connection or raises.
TxConnect ==
    /\ call.fn = "save_ticket_response" => call.pc = "returned"
    /\ Dispatch
    /\ \E id \in TicketIds, text \in ReplyTexts, db_ok \in BOOLEAN :
        call' = [fn |-> "save_ticket_response", id |-> id, text |-> Wrap(text),
                 at |-> now, pc |-> IF db_ok THEN "update" ELSE "returned",
                 done |-> <<>>, ret |-> FALSE]
    /\ UNCHANGED <<tickets, responses>>
    /\ UNCHANGED tx_frame

\* TxUpdate on a connection that commits every statement as it runs.
TxUpdate_autocommit ==
    /\ InTx("update")
    /\ \E db_ok \in BOOLEAN :
        IF db_ok
        THEN /\ call' = [call EXCEPT !.pc = "insert", !.at = now,
                                          !.done = Append(@, "update")]
             /\ tickets' = save_ticket_response_ticket(tickets, call.id, now, TRUE)
        ELSE /\ call' = TxReturn(FALSE)
             /\ tickets' = tickets
    /\ UNCHANGED <<responses, commands>>
    /\ UNCHANGED tx_frame

\* Lines 137-138: UPDATE tickets SET status, response_time = datetime.now()
\* runs inside the transaction, or raises.
TxUpdate ==
    /\ InTx("update")
    /\ \E db_ok \in BOOLEAN :
        call' = IF db_ok
                THEN [call EXCEPT !.pc = "insert", !.at = now,
                                  !.done = Append(@, "update")]
                ELSE TxReturn(FALSE)
    /\ UNCHANGED <<tickets, responses, commands>>
    /\ UNCHANGED tx_frame

\* Lines 141-142: INSERT INTO responses runs inside the transaction; it
\* raises on a fault and when the ticket has no row (foreign key).
TxInsert ==
    /\ InTx("insert")
    /\ \E db_ok \in BOOLEAN :
        call' = IF db_ok /\ Exists(tickets, call.id)
                THEN [call EXCEPT !.pc = "commit", !.done = Append(@, "insert")]
                ELSE TxReturn(FALSE)
    /\ UNCHANGED <<tickets, responses, commands>>
    /\ UNCHANGED tx_frame

\* Lines 144-152: connection.commit() makes both statements durable and
\* True is returned; when it raises nothing is kept and False is returned.
TxCommit ==
    /\ InTx("commit")
    /\ \E db_ok \in BOOLEAN :
        /\ tickets' = save_ticket_response_ticket(tickets, call.id, call.at, db_ok)
        /\ responses' = save_ticket_response_rows(responses, tickets, call.id,
                                                  call.text, db_ok)
        /\ call' = TxReturn(db_ok)
    /\ UNCHANGED commands
    /\ UNCHANGED tx_frame


(***************************************************************************)
(* Knowledge base (rag_service.py).  A Python list is an object: the       *)
(* statement self.chunks = [] binds the attribute to a new list, and a     *)
(* loop that already iterates the old list keeps iterating the old one.    *)
(* rag.lists holds every list self.chunks was ever bound to; the last one  *)
(* is the list the attribute is bound to now.                              *)
(***************************************************************************)
Docs == 1..MaxDocs

\* The chunks of a document; document d is a text of d chunks.
DocChunks(d) == [k \in 1..d |-> [source |-> d, chunk_id |-> k - 1]]

\* The order os.walk lists the files in.
RECURSIVE WalkOrder(_)
WalkOrder(S) ==
    IF S = {} THEN <<>>
    ELSE LET d == CHOOSE x \in S : \A y \in S : x <= y
         IN  <<d>> \o WalkOrder(S \ {d})

\* Lines 105-107 run to the end over the documents in `order`.
RECURSIVE ChunkAll(_)
ChunkAll(order) ==
    IF order = <<>> THEN <<>>
    ELSE DocChunks(Head(order)) \o ChunkAll(Tail(order))

Corpus(disk) == ChunkAll(WalkOrder(disk))

\* The service after initialize_rag: the sample README.md is loaded.
Loaded ==
    [disk |-> {1},
     documents |-> <<1>>,
     lists |-> <<Corpus({1})>>,
     lpc |-> "idle",
     todo |-> <<>>,
     spc |-> "idle",
     it |-> [list |-> 1, index |-> 0],
     seen |-> <<>>,
     complete |-> {Corpus({1})},
     reloads |-> 0,
     searches |-> 0]

SelfChunks == rag.lists[Len(rag.lists)]

lifecycle_vars ==
    <<now, AUTO_FILTER_ENABLED, AUTO_REPLY_ENABLED, tickets, responses, drafts,
      pending_confirmations, outbox, chat, result, epc, cur, polled, commands, call>>

\* The operator adds a file to the knowledge directory or removes one.
ChangeDisk ==
    /\ \E d \in Docs :
        rag' = [rag EXCEPT !.disk = IF d \in rag.disk THEN rag.disk \ {d}
                                    ELSE rag.disk \cup {d}]
    /\ UNCHANGED lifecycle_vars

\* load_documents without line 83: self.chunks is not bound to a new
\* list, and the load goes on from a copy of the chunks it found.
ReloadStart_keeps_chunks ==
    /\ rag.lpc = "idle"
    /\ rag.reloads < MaxReloads
    /\ rag' = [rag EXCEPT !.reloads = @ + 1,
                          !.documents = <<>>,
                          !.lists = Append(@, rag.lists[Len(rag.lists)]),
                          !.lpc = "scan"]
    /\ UNCHANGED lifecycle_vars

\* handle_knowledge_base "reload" calls load_documents; lines 82-83:
\* self.documents = {} and self.chunks = [].
ReloadStart ==
    /\ rag.lpc = "idle"
    /\ rag.reloads < MaxReloads
    /\ rag' = [rag EXCEPT !.reloads = @ + 1,
                          !.documents = <<>>,
                          !.lists = Append(@, <<>>),
                          !.lpc = "scan"]
    /\ UNCHANGED lifecycle_vars

\* Lines 85-102: the files are read into self.documents; a file that
\* _load_file raises for is skipped.  rag.complete records the corpus this
\* load ends with.
ReloadScan ==
    /\ rag.lpc = "scan"
    /\ \E readable \in SUBSET rag.disk :
          rag' = [rag EXCEPT !.documents = WalkOrder(readable),
                             !.todo = WalkOrder(readable),
                             !.complete = @ \cup {Corpus(readable)},
                             !.lpc = "chunk"]
    /\ UNCHANGED lifecycle_vars

\* Lines 105-107, one document: self.chunks.extend(doc_chunks).
ReloadChunk ==
    /\ rag.lpc = "chunk"
    /\ rag.todo # <<>>
    /\ rag' = [rag EXCEPT !.lists[Len(rag.lists)] = @ \o DocChunks(Head(rag.todo)),
                          !.todo = Tail(@)]
    /\ UNCHANGED lifecycle_vars

\* Lines 109-111: the last document is chunked and load_documents returns.
ReloadDone ==
    /\ rag.lpc = "chunk"
    /\ rag.todo = <<>>
    /\ rag' = [rag EXCEPT !.lpc = "idle"]
    /\ UNCHANGED lifecycle_vars

\* get_context_for_email calls search; line 218 finds the service loaded.
SearchStart ==
    /\ rag.spc \in {"idle", "done"}
    /\ rag.searches < MaxSearches
    /\ rag' = [rag EXCEPT !.searches = @ + 1, !.seen = <<>>, !.spc = "check"]
    /\ UNCHANGED lifecycle_vars

\* Lines 221-222: `if not self.chunks` returns an empty result.
SearchCheck ==
    /\ rag.spc = "check"
    /\ rag' = [rag EXCEPT !.spc = IF SelfChunks = <<>> THEN "done" ELSE "iter"]
    /\ UNCHANGED lifecycle_vars

\* Line 229: `for chunk in self.chunks` takes an iterator over the list the
\* attribute is bound to at that moment.
SearchIter ==
    /\ rag.spc = "iter"
    /\ rag' = [rag EXCEPT !.it = [list |-> Len(rag.lists), index |-> 0],
                          !.spc = "next"]
    /\ UNCHANGED lifecycle_vars

\* Lines 229-232: the iterator yields the next chunk of its list, or the
\* loop ends when the index has reached the list's present length.
SearchNext ==
    /\ rag.spc = "next"
    /\ rag' = IF rag.it.index < Len(rag.lists[rag.it.list])
              THEN [rag EXCEPT !.seen = Append(@, rag.lists[rag.it.list][rag.it.index + 1]),
                               !.it.index = @ + 1]
              ELSE [rag EXCEPT !.spc = "done"]
    /\ UNCHANGED lifecycle_vars


(***************************************************************************)
(* Specifications.                                                         *)
(***************************************************************************)
\* The state after start-up, with the two switches of settings.py as given.
Start(auto_filter, auto_reply) ==
    /\ now = 0
    /\ AUTO_FILTER_ENABLED = auto_filter
    /\ AUTO_REPLY_ENABLED = auto_reply
    /\ tickets = [id \in TicketIds |-> NoRow]
    /\ responses = <<>>
    /\ drafts = [id \in TicketIds |-> None]
    /\ pending_confirmations = [id \in TicketIds |-> None]
    /\ outbox = <<>>
    /\ chat = <<>>
    /\ result = NoResult
    /\ epc = "idle"
    /\ cur = NoEmail
    /\ polled = 0
    /\ commands = 0
    /\ rag = Loaded
    /\ call = NoCall

\* settings.py lines 38-39: both switches default to "true".
Init == Start(TRUE, TRUE)

EmailSteps ==
    \/ ArchiveSave
    \/ ArchiveStatus
    \/ SaveTicket
    \/ Acknowledge
    \/ GenerateDraft
    \/ Forward
    \/ ForwardStatus

\* The ticket lifecycle: the first inbound email of a run is followed
\* through the email loop while the command loop runs beside it.
Next ==
    \/ Tick
    \/ polled = 0 /\ Poll(LifecycleReplies)
    \/ EmailSteps
    \/ Confirm
    \/ Edit
    \/ Regenerate
    \/ Reply

Spec == Init /\ [][Next]_vars


(***************************************************************************)
(* Properties of the ticket lifecycle (specification Spec).                *)
(***************************************************************************)
Status(id) == tickets[id].status
ResponseMailsFor(box, id) ==
    SelectSeq(box, LAMBDA m : m.kind = "response" /\ m.ticket_id = id)
DeliveredNow(id) ==
    /\ Len(outbox') = Len(outbox) + 1
    /\ outbox'[Len(outbox')].kind = "response"
    /\ outbox'[Len(outbox')].ticket_id = id
CommandStep == commands' # commands

\* A confirm, edit or reply for ticket id that got as far as
\* send_response_email: the draft and the ticket were found.
C1_SendAttempted(id) ==
    /\ Exists(tickets, id)
    /\ \/ Truthy(DraftFor(id)) /\ handle_confirm(id)
       \/ \E completion \in LaterCompletions : handle_edit(id, completion)
       \/ \E completion \in LaterCompletions, text \in ReplyTexts :
             handle_reply(id, text, completion)

\* C1: a ticket becomes responded only in a step that delivered a response
\* email for that ticket; a command that delivers nothing leaves every
\* ticket and response as it was and never reports success; and when a
\* confirm, edit or reply reached the send and nothing was delivered, the
\* operator is told that sending failed.
C1_Step ==
    /\ \A id \in TicketIds :
          (Status(id)' = "responded" /\ Status(id) # "responded") => DeliveredNow(id)
    /\ (CommandStep /\ outbox' = outbox) =>
          /\ tickets' = tickets
          /\ responses' = responses
          /\ result' # "sent"
          /\ result' = "send_failed" \/ \A id \in TicketIds : ~C1_SendAttempted(id)
C1_RespondedOnlyAfterDelivery == [][C1_Step]_vars

\* C1 witness: a ticket waits with its draft, the mail of the last command
\* was refused and the ticket was not advanced.
C1_Witness ==
    \E id \in TicketIds :
        /\ Status(id) = "pending_confirmation"
        /\ Truthy(pending_confirmations[id])
        /\ result = "send_failed"
        /\ ResponseMailsFor(outbox, id) = <<>>

\* C2: a confirm on a ticket that is already responded sends nothing and
\* leaves the ticket and its responses as they were, and the operator is
\* told of an error.
C2_Step ==
    \A id \in TicketIds :
        (Status(id) = "responded" /\ handle_confirm(id)) =>
            /\ outbox' = outbox
            /\ tickets' = tickets
            /\ responses' = responses
            /\ result' \in {"no_pending_draft", "not_found"}
C2_ConfirmOnRespondedFails == [][C2_Step]_vars

\* C3: every persisted ticket has a stored response iff its status is
\* responded.
C3_ResponseIffResponded ==
    \A id \in TicketIds :
        Exists(tickets, id) => (HasResponse(responses, id) <=> Status(id) = "responded")

\* C4: a responded ticket has no pending draft.
C4_RespondedHasNoPendingDraft ==
    \A id \in TicketIds :
        Status(id) = "responded" =>
            get_pending_confirmation(pending_confirmations, id) = None

\* C7: a ticket's status only moves forward in the order received,
\* acknowledged, forwarded_to_support or pending_confirmation, responded.
Rank(status) ==
    CASE status = "received" -> 0
      [] status = "acknowledged" -> 1
      [] status \in {"forwarded_to_support", "pending_confirmation"} -> 2
      [] status = "responded" -> 3
      [] OTHER -> 4
C7_Step ==
    \A id \in TicketIds :
        (Exists(tickets, id) /\ Status(id) # "archived" /\ Status(id)' # "archived")
            => Rank(Status(id)') >= Rank(Status(id))
C7_StatusMovesForward == [][C7_Step]_vars

\* C8: once a ticket is responded or archived its status never changes.
C8_Step ==
    \A id \in TicketIds :
        Status(id) \in {"responded", "archived"} => Status(id)' = Status(id)
C8_TerminalStatuses == [][C8_Step]_vars

\* C9: at most one response is recorded for a ticket, and its response
\* time, once set, is never overwritten.
C9_Step ==
    \A id \in TicketIds :
        /\ Len(ResponsesOf(responses', id)) <= 1
        /\ tickets[id].response_time # NULL =>
              tickets'[id].response_time = tickets[id].response_time
C9_ResponseRecordedOnce == [][C9_Step]_vars


\* Some command names ticket id in this step.
CommandOn(id) ==
    \/ handle_confirm(id)
    \/ \E completion \in LaterCompletions : handle_edit(id, completion)
    \/ \E completion \in LaterCompletions : handle_regenerate(id, completion)
    \/ \E completion \in LaterCompletions, text \in ReplyTexts :
          handle_reply(id, text, completion)

\* C16: a confirm, edit, regenerate or reply that names a ticket id with no
\* ticket sends no email, creates and changes no ticket, response or
\* persisted draft, leaves the pending-draft store as it was, and answers
\* the operator with an error.
C16_Step ==
    \A id \in TicketIds :
        (~Exists(tickets, id) /\ CommandOn(id)) =>
            /\ outbox' = outbox
            /\ tickets' = tickets
            /\ responses' = responses
            /\ drafts' = drafts
            /\ pending_confirmations' = pending_confirmations
            /\ chat' = chat
            /\ result' \in {"not_found", "no_pending_draft"}
C16_UnknownTicketChangesNothing == [][C16_Step]_vars

\* C16 witness: the last command named an unknown ticket and was refused,
\* while another ticket waits for confirmation with its draft in the store.
C16_Witness ==
    /\ result = "not_found"
    /\ \E id \in TicketIds : ~Exists(tickets, id)
    /\ \E id \in TicketIds :
          /\ Status(id) = "pending_confirmation"
          /\ Truthy(pending_confirmations[id])
    /\ \A id \in TicketIds : ~Exists(tickets, id) => pending_confirmations[id] = None

(***************************************************************************)
(* Intake: the email loop alone, under every setting of the two switches   *)
(* and every well-formed verdict of the classifier.                        *)
(***************************************************************************)
InitIntake == \E auto_filter \in BOOLEAN, auto_reply \in BOOLEAN : Start(auto_filter, auto_reply)

NextIntake ==
    \/ Tick
    \/ Poll(WellFormedReplies)
    \/ EmailSteps

SpecIntake == InitIntake /\ [][NextIntake]_vars

Filterable(email) ==
    /\ AUTO_FILTER_ENABLED
    /\ email # NoEmail
    /\ email.raised = "none"
    /\ is_spam_or_promotion(email.cls)

\* C5: an email whose classification is filterable, whatever its
\* should_respond and should_archive flags, ends the handler at once: no
\* ticket is persisted for it, no mail goes to its sender, and neither
\* forward_to_telegram nor forward_to_telegram_with_draft runs for it.
C5_FilteredLeavesNoTrace ==
    Filterable(cur) =>
        /\ epc = "idle"
        /\ \A id \in TicketIds : tickets[id].from_email # cur.from_email
        /\ \A i \in 1..Len(outbox) : outbox[i].to # cur.from_email
        /\ \A i \in 1..Len(chat) :
              chat[i].from_email = cur.from_email => chat[i].kind = "filtered"

\* C5 witness: the second email of the same second is filterable although
\* the classifier says it needs no response and should be archived; the
\* first email's ticket is stored under the id the second one was given.
C5_Witness ==
    /\ Filterable(cur)
    /\ ~needs_response(cur.cls)
    /\ cur.cls.should_archive
    /\ cur.from_email = 2
    /\ Exists(tickets, cur.ticket_id)
    /\ chat # <<>> /\ chat[Len(chat)].kind = "filtered"

ArchiveAsked(email) ==
    /\ AUTO_FILTER_ENABLED
    /\ email # NoEmail
    /\ email.raised = "none"
    /\ email.cls.should_archive
    /\ ~is_spam_or_promotion(email.cls)

\* C14: an email whose classification asks for archiving and is not
\* filterable takes the archive path only: no draft is generated for it,
\* nothing about it is sent to the operator chat, and when its handling
\* has ended a ticket of its sender is stored with status archived.
C14_ArchiveAskedIsArchived ==
    ArchiveAsked(cur) =>
        /\ epc \in {"archive_save", "archive_status", "idle"}
        /\ cur.draft = None
        /\ \A i \in 1..Len(chat) : chat[i].from_email # cur.from_email
        /\ epc = "idle" =>
              \E id \in TicketIds :
                  /\ tickets[id].from_email = cur.from_email
                  /\ tickets[id].status = "archived"

\* C14 case reached: the classification asks for archiving and for a
\* response, and the email has been forwarded to the operator with a draft.
C14_ArchiveAskedForwarded ==
    /\ ArchiveAsked(cur)
    /\ needs_response(cur.cls)
    /\ chat # <<>>
    /\ chat[Len(chat)].kind = "forward_with_draft"
    /\ chat[Len(chat)].from_email = cur.from_email

\* C17: two distinct inbound emails never get the same ticket id: the id
\* given to an email differs from the id given to the email before it
\* (ids follow the clock, so this makes all of them distinct).
C17_Step ==
    (polled' # polled /\ cur # NoEmail) => cur'.ticket_id # cur.ticket_id
C17_TicketIdsUnique == [][C17_Step]_vars

\* C17 case reached: the second email was given the id under which the
\* first email's ticket is stored.
C17_SecondEmailSharesId ==
    /\ cur.from_email = 2
    /\ tickets[cur.ticket_id].from_email = 1


(***************************************************************************)
(* Classification: line 68 of handle_new_email under every reply the       *)
(* chat-completion call can produce, for one email.  An email the gate     *)
(* lets through is followed no further here.                               *)
(***************************************************************************)
NextClassify ==
    \/ Tick
    \/ polled = 0 /\ Poll(LlmReplies)

SpecClassify == Init /\ [][NextClassify]_vars

\* A reply that is a failure, a timeout, no JSON, or JSON that does not fit
\* the schema: a value that is no object, a category that names none, a
\* confidence or priority that is null or holds no number.
Malformed(o) ==
    \/ o.kind \in {"fail", "empty", "nonjson", "falsy_value", "truthy_nonobject"}
    \/ /\ o.kind = "object"
       /\ \/ o.category \in {"unknown", "null"}
          \/ o.confidence \in {"null", "badstr"}
          \/ o.priority \in {"null", "badstr"}

\* C6: for every malformed reply classify_email raises nothing and returns
\* the fail-safe default (other, 0.3, 3, respond, not delete, not archive).
C6_MalformedGivesDefault ==
    (cur # NoEmail /\ Malformed(cur.llm)) =>
        /\ cur.raised = "none"
        /\ cur.cls = DefaultClassification

\* C6 case reached: the reply is an object with a known category and a null
\* confidence, and float(None) raised TypeError out of classify_email.
C6_NullConfidenceRaises ==
    /\ cur # NoEmail
    /\ cur.llm.kind = "object"
    /\ cur.llm.confidence = "null"
    /\ cur.llm.category \in Categories
    /\ cur.raised = "TypeError"


(***************************************************************************)
(* Knowledge base: a reload from the command loop next to searches from    *)
(* the email loop.                                                         *)
(***************************************************************************)
NextRag ==
    \/ ChangeDisk
    \/ ReloadStart
    \/ ReloadScan
    \/ ReloadChunk
    \/ ReloadDone
    \/ SearchStart
    \/ SearchCheck
    \/ SearchIter
    \/ SearchNext

SpecRag == Init /\ [][NextRag]_vars

\* C10: the chunks a finished search went over are a complete corpus, the
\* one some load ended with, never a part of one.
C10_SearchSeesCompleteCorpus ==
    rag.spc = "done" => rag.seen \in rag.complete


\* Loads on their own: the knowledge directory changes and is loaded again.
NextLoad ==
    \/ ChangeDisk
    \/ ReloadStart
    \/ ReloadScan
    \/ ReloadChunk
    \/ ReloadDone

SpecLoad == Init /\ [][NextLoad]_vars

Sources(chunks) == {chunks[i].source : i \in 1..Len(chunks)}

\* C25: loading fully replaces the corpus: when load_documents returns,
\* self.chunks holds exactly the chunks of the documents this load read,
\* in the order read, so nothing of an earlier load is left, neither of a
\* document removed since nor of one that now fails to load; and a load
\* that read the same documents as the load before it ends with the same
\* chunks.
C25_Step ==
    (rag.lpc = "chunk" /\ rag'.lpc = "idle") =>
        LET after == rag'.lists[Len(rag'.lists)]
            before == rag.lists[Len(rag.lists) - 1]
        IN  /\ after = ChunkAll(rag.documents)
            /\ Sources(after) = {rag.documents[i] : i \in 1..Len(rag.documents)}
            /\ Sources(before) = Sources(after) => after = before
C25_LoadReplacesCorpus == [][C25_Step]_vars

\* C25 witness: a load has returned that read less than the load before
\* it, one document being gone or unreadable, and none of that document's
\* chunks is in self.chunks.
C25_Witness ==
    /\ rag.lpc = "idle"
    /\ rag.reloads > 0
    /\ \E d \in Docs :
          /\ d \in Sources(rag.lists[Len(rag.lists) - 1])
          /\ d \notin Sources(SelfChunks)
    /\ SelfChunks # <<>>


(***************************************************************************)
(* Pending-confirmation store on its own: any sequence of set, clear and   *)
(* get over the ticket ids.                                                *)
(***************************************************************************)
NextStore ==
    \/ StoreSet
    \/ StoreClear
    \/ StoreGet

SpecStore == Init /\ [][NextStore]_vars

OthersKept(id) ==
    \A other \in TicketIds \ {id} : pending_confirmations[other] = call.before[other]

\* C11: the store holds one draft per ticket id and the last write wins:
\* after set(id, d) get(id) is d whatever was stored before, other ids keep
\* theirs; after clear(id) get(id) is none; clear on an id with no draft
\* changes nothing; get returns the stored draft and changes nothing.
C11_StoreLastWriteWins ==
    /\ call.fn = "set" =>
          /\ get_pending_confirmation(pending_confirmations, call.id) = call.draft
          /\ OthersKept(call.id)
    /\ call.fn = "clear" =>
          /\ get_pending_confirmation(pending_confirmations, call.id) = None
          /\ OthersKept(call.id)
          /\ call.before[call.id] = None => pending_confirmations = call.before
    /\ call.fn = "get" =>
          /\ call.ret = call.before[call.id]
          /\ pending_confirmations = call.before

\* C11 witness: set(id, d2) has just run on an id that held d1, and the
\* store now gives d2 for it.
C11_Witness ==
    /\ call.fn = "set"
    /\ call.before[call.id] = <<"d1">>
    /\ call.draft = <<"d2">>
    /\ pending_confirmations[call.id] = <<"d2">>


(***************************************************************************)
(* Drafts: one email that asks for a response, and the commands that work  *)
(* on its draft, the regeneration drawing from every completion.           *)
(***************************************************************************)
RequestReplies ==
    {LlmReply("object", "support_request", "num", "num", "true", "false", "false", "str")}

AnyCompletions == FirstCompletions \cup LaterCompletions

RegenerateAny == \E id \in TicketIds, completion \in AnyCompletions :
    handle_regenerate(id, completion)

NextDrafts ==
    \/ polled = 0 /\ Poll(RequestReplies)
    \/ SaveTicket
    \/ Acknowledge
    \/ GenerateDraft
    \/ Forward
    \/ ForwardStatus
    \/ Confirm
    \/ Edit
    \/ RegenerateAny

SpecDrafts == Init /\ [][NextDrafts]_vars

LastMail(box) == box[Len(box)]

\* C12: whenever the store holds a draft for a ticket, whatever its value
\* and whatever the persisted copy is, the draft confirm and edit find is
\* never the persisted copy but the stored one, and a confirm that sends,
\* sends the stored one.
C12_Step ==
    \A id \in TicketIds :
        get_pending_confirmation(pending_confirmations, id) # None =>
            /\ DraftFor(id) # None =>
                  DraftFor(id) = get_pending_confirmation(pending_confirmations, id)
            /\ (handle_confirm(id) /\ outbox' # outbox) =>
                  LastMail(outbox').body =
                      Wrap(get_pending_confirmation(pending_confirmations, id))
C12_InMemoryDraftTakesPrecedence == [][C12_Step]_vars

\* C12 case reached: the store holds a draft while the persisted copy is a
\* different text.
C12_CopiesDiffer ==
    \E id \in TicketIds :
        /\ pending_confirmations[id] # None
        /\ drafts[id] # None
        /\ drafts[id] # pending_confirmations[id]

\* C13: a confirm that directly follows a regeneration of the ticket's draft
\* and sends a mail, sends the draft the regeneration stored, never another
\* draft of the ticket.
C13_Step ==
    \A id \in TicketIds :
        (result = "new_draft" /\ Exists(tickets, id) /\ handle_confirm(id)
            /\ outbox' # outbox) =>
                LastMail(outbox').body =
                    Wrap(get_pending_confirmation(pending_confirmations, id))
C13_RegeneratedDraftIsSent == [][C13_Step]_vars


(***************************************************************************)
(* Manual reply: one email that asks for a response, and /reply commands   *)
(* on its ticket under everything the Ollama server can do with the       *)
(* request, for either kind of model name.                                 *)
(***************************************************************************)
\* What the operator writes behind /reply: a plain line, and a text the
\* cleaning of a completion would change.
OperatorTexts == {<<"r1">>, <<"Response:", "r1">>}

ReplyAny == \E id \in TicketIds, text \in OperatorTexts,
               answer \in OllamaAnswers, slash \in BOOLEAN :
    handle_reply(id, text, ollama_completion(answer, slash))

NextReply ==
    \/ polled = 0 /\ Poll(RequestReplies)
    \/ SaveTicket
    \/ Acknowledge
    \/ GenerateDraft
    \/ Forward
    \/ ForwardStatus
    \/ ReplyAny

SpecReply == Init /\ [][NextReply]_vars

\* The LLM call of the manual-reply path failed: the request raised, the
\* answer has a status other than 200, or the library's answer has no
\* message content.
CallFailed(answer, slash) ==
    \/ answer.kind = "raised"
    \/ answer.status # 200
    \/ ~slash /\ answer.response = NoResponse

\* C29: when the LLM call of the manual-reply path fails, /reply on an
\* existing ticket still goes to the send with the operator's text exactly
\* as written between "Dear Customer," and "Thanks, The StudyFate Team":
\* the mail that leaves, and the response recorded, carry that text, and
\* nothing is delivered only when the mail server refused the message.
C29_Step ==
    /\ \A answer \in OllamaAnswers, slash \in BOOLEAN :
          CallFailed(answer, slash) => ollama_completion(answer, slash) = None
    /\ \A id \in TicketIds, text \in OperatorTexts :
          (Exists(tickets, id) /\ handle_reply(id, text, None)) =>
              LET sent == <<"Dear Customer,", "\n">> \o text \o
                              <<"\n", "Thanks,", "The StudyFate Team">>
              IN  /\ result' \in {"sent", "send_failed"}
                  /\ result' = "sent" =>
                        /\ Len(outbox') = Len(outbox) + 1
                        /\ LastMail(outbox') =
                              [to |-> tickets[id].from_email, kind |-> "response",
                               ticket_id |-> id, body |-> sent]
                        /\ Len(responses') > Len(responses) =>
                              responses'[Len(responses')] =
                                  [ticket_id |-> id, response_text |-> sent]
                  /\ result' = "send_failed" => outbox' = outbox
all_but_call ==
    <<now, AUTO_FILTER_ENABLED, AUTO_REPLY_ENABLED, tickets, responses, drafts,
      pending_confirmations, outbox, chat, result, epc, cur, polled, commands, rag>>

\* A caller evaluates the two gates on a classification.
Gates ==
    /\ \E c \in Classifications :
        call' = [fn |-> "gates", c |-> c,
                 filterable |-> is_spam_or_promotion(c),
                 needs |-> needs_response(c)]
    /\ UNCHANGED all_but_call

NextGates == Gates

SpecGates == Init /\ [][NextGates]_vars

\* C15: is_spam_or_promotion(c) is true iff the category is spam, promotion
\* or newsletter or should_delete is true; needs_response(c) is
\* should_respond; and two classifications that agree on these fields get
\* the same answers whatever their other fields are.
C15_GatesTruthTable ==
    call.fn = "gates" =>
        /\ call.filterable <=>
              (call.c.category = "spam" \/ call.c.category = "promotion"
                  \/ call.c.category = "newsletter" \/ call.c.should_delete = TRUE)
        /\ call.needs <=> call.c.should_respond = TRUE
        /\ \A other \in Classifications :
              /\ (other.category = call.c.category
                    /\ other.should_delete = call.c.should_delete)
                    => is_spam_or_promotion(other) = call.filterable
              /\ other.should_respond = call.c.should_respond
                    => needs_response(other) = call.needs

\* C15 witness: a classification that is filterable by should_delete alone
\* while it asks for a response.
C15_Witness ==
    /\ call.fn = "gates"
    /\ call.c.category = "support_request"
    /\ call.c.should_delete
    /\ call.c.should_respond
    /\ call.filterable
    /\ call.needs


(***************************************************************************)
(* save_ticket_response with a fault possible at every statement, next to  *)
(* the intake of one email that asks for a response.                       *)
(***************************************************************************)
NextSaveResponse ==
    \/ Tick
    \/ polled = 0 /\ Poll(RequestReplies)
    \/ SaveTicket
    \/ Acknowledge
    \/ GenerateDraft
    \/ Forward
    \/ ForwardStatus
    \/ TxConnect
    \/ TxUpdate
    \/ TxInsert
    \/ TxCommit

SpecSaveResponse == Init /\ [][NextSaveResponse]_vars

\* C18: the status responded, the response time and the response text are
\* persisted as one unit: a step of save_ticket_response that returns True
\* persists all three together, and every other step of it, a return of
\* False included, persists nothing.
C18_Step ==
    call' # call =>
        IF call'.pc = "returned" /\ call'.ret
        THEN /\ tickets'[call.id].status = "responded"
             /\ tickets'[call.id].response_time = {call.at}
             /\ \A id \in TicketIds \ {call.id} : tickets'[id] = tickets[id]
             /\ responses' = Append(responses, [ticket_id |-> call.id,
                                                response_text |-> call.text])
        ELSE /\ tickets' = tickets
             /\ responses' = responses
C18_ResponseSavedAtomically == [][C18_Step]_vars

\* C18 witness: the insert raised after the update had run in the same
\* call; False was returned and the ticket, not yet responded, has no
\* response time and no response.
C18_Witness ==
    /\ InTx("returned")
    /\ ~call.ret
    /\ call.done = <<"update">>
    /\ Exists(tickets, call.id)
    /\ Status(call.id) = "pending_confirmation"
    /\ tickets[call.id].response_time = NULL
    /\ ~HasResponse(responses, call.id)

(***************************************************************************)
(* The two polling loops: check_new_emails (email_service.py) and          *)
(* telegram_polling_loop (telegram_service.py), started by                 *)
(* start_background_tasks (main.py).  Their frames live in call.           *)
(***************************************************************************)
\* What the classifier comes back with for the emails of a poll: spam,
\* which the callback filters and returns, or a reply whose confidence is
\* null, which makes classify_email raise inside the callback.
PollReplies ==
    {LlmReply("object", "spam", "num", "num", "false", "true", "false", "str"),
     LlmReply("object", "inquiry", "null", "num", "true", "false", "false", "str")}

RECURSIVE Ascending(_)
\* message_numbers[0].split(): the message numbers IMAP SEARCH returns,
\* in ascending order.
Ascending(S) ==
    IF S = {} THEN <<>>
    ELSE LET least == CHOOSE n \in S : \A m \in S : n <= m
         IN  <<least>> \o Ascending(S \ {least})

\* The two threads are alive: started, and the process has not exited.
Started == call.fn = "start_background_tasks" /\ call.main # "exited"

\* main.py lines 165-188 and 251-253: main.py runs as the script, module
\* __main__; both keep-running flags are set and the two threads start at
\* the top of their functions.  check_new_emails does "import src.main"
\* (email_service line 238), which loads main.py a second time under the
\* name src.main, with a flag of its own that line 51 sets to True.
start_background_tasks ==
    /\ call = NoCall
    /\ call' = [fn |-> "start_background_tasks",
                main |-> "serving",         \* the main thread
                running |-> TRUE,           \* running of __main__
                src_main_running |-> TRUE,  \* running of the module src.main
                tg_running |-> TRUE,        \* telegram_service.running
                arrived |-> 0,              \* emails delivered to the INBOX
                unseen |-> {},              \* INBOX messages without \Seen
                sent |-> 0,                 \* updates the operator sent
                acked |-> 0,                \* updates confirmed to the Bot API
                email |-> [pc |-> "while", batch |-> <<>>, num |-> 0,
                           entry |-> 0, caught |-> "none"],
                telegram |-> [pc |-> "remove_webhook", batch |-> <<>>, upd |-> 0,
                              entry |-> 0, caught |-> "none"]]
    /\ UNCHANGED all_but_call

\* main.py lines 149-155: cleanup clears its own module's flag and the
\* flag of telegram_service.
cleanup ==
    /\ Started
    /\ call.main = "serving"
    /\ call' = [call EXCEPT !.main = "joining",
                            !.running = FALSE, !.tg_running = FALSE]
    /\ UNCHANGED all_but_call

\* main.py lines 157-163 and 179-180: each thread is joined for at most
\* five seconds, finished or not; then the process exits and its daemon
\* threads end where they are.
Exit ==
    /\ Started
    /\ call.main = "joining"
    /\ call' = [call EXCEPT !.main = "exited"]
    /\ UNCHANGED all_but_call

\* A customer's email reaches the INBOX, unread.
Arrive ==
    /\ Started
    /\ call.arrived < MaxEmails
    /\ call' = [call EXCEPT !.arrived = @ + 1, !.unseen = @ \cup {call.arrived + 1}]
    /\ UNCHANGED all_but_call

\* The operator sends one more command to the bot.
Send ==
    /\ Started
    /\ call.sent < MaxUpdates
    /\ call' = [call EXCEPT !.sent = @ + 1]
    /\ UNCHANGED all_but_call

\* check_new_emails with no handler around its iteration: the fault ends
\* the thread.
EmailExcept_uncaught(frame, fault) ==
    [frame EXCEPT !.pc = "stopped", !.caught = fault]

\* email_service lines 310-323: "except Exception" around the whole poll;
\* the for loop over the poll's emails is left and the 60 second wait
\* begins.
EmailExcept(frame, fault) ==
    [frame EXCEPT !.pc = "error_wait", !.caught = fault]

\* Line 240: while src.main.running.
EmailWhile ==
    /\ Started
    /\ call.email.pc = "while"
    /\ call' = [call EXCEPT !.email.pc =
                   IF call.src_main_running THEN "connect" ELSE "stopped",
                            !.email.batch = <<>>]
    /\ UNCHANGED all_but_call

\* Lines 245-254: connect, login, select (each may raise), then the
\* running check that breaks out of the while loop.
EmailConnect ==
    /\ Started
    /\ call.email.pc = "connect"
    /\ \E ok \in BOOLEAN :
          call' = [call EXCEPT !.email =
                      IF ~ok THEN EmailExcept(@, "network")
                      ELSE IF ~call.src_main_running THEN [@ EXCEPT !.pc = "stopped"]
                      ELSE [@ EXCEPT !.pc = "search"]]
    /\ UNCHANGED all_but_call

\* Lines 256-267: SEARCH UNSEEN gives the emails of this poll.
EmailSearch ==
    /\ Started
    /\ call.email.pc = "search"
    /\ \E ok \in BOOLEAN :
          call' = [call EXCEPT !.email =
                      IF ~ok THEN EmailExcept(@, "network")
                      ELSE [@ EXCEPT !.pc = "for", !.batch = Ascending(call.unseen)]]
    /\ UNCHANGED all_but_call

\* Lines 267-299: the head of the for loop up to the callback.  FETCH
\* RFC822 sets \Seen on the message it returns.
EmailFor ==
    /\ Started
    /\ call.email.pc = "for"
    /\ IF call.email.batch = <<>> \/ ~call.src_main_running
       THEN call' = [call EXCEPT !.email.pc = "sleep"]
       ELSE \E status \in {"OK", "NO", "raise"} :
               LET num == Head(call.email.batch)
               IN  call' =
                     IF status = "raise"
                     THEN [call EXCEPT !.email = EmailExcept(@, "network")]
                     ELSE IF status = "NO"
                     THEN [call EXCEPT !.email.batch = Tail(@)]
                     ELSE [call EXCEPT !.unseen = @ \ {num},
                                       !.email.batch = Tail(@),
                                       !.email.num = num,
                                       !.email.entry = polled,
                                       !.email.pc = "callback"]
    /\ UNCHANGED all_but_call

\* Line 302: callback(...) is handle_new_email.
EmailCallback ==
    /\ Started
    /\ call.email.pc = "callback"
    /\ polled = call.email.entry
    /\ Poll(PollReplies)

\* handle_new_email is over: it returned, and the for loop goes on, or it
\* raised, and the exception reaches the handler of the poll.
EmailCallbackReturn ==
    /\ Started
    /\ call.email.pc = "callback"
    /\ polled = call.email.entry + 1
    /\ epc = "idle"
    /\ call' = [call EXCEPT !.email =
                   IF cur.raised # "none" THEN EmailExcept(@, "callback")
                   ELSE [@ EXCEPT !.pc = "for"]]
    /\ UNCHANGED all_but_call

\* Lines 304-309 and 317-323: the wait after a poll and the wait after a
\* fault both lead back to the while condition.
EmailWait ==
    /\ Started
    /\ call.email.pc \in {"sleep", "error_wait"}
    /\ call' = [call EXCEPT !.email.pc = "while"]
    /\ UNCHANGED all_but_call

\* telegram_service lines 370-381: "except Exception" around the
\* iteration; five seconds of sleep and a reset of the webhook.
TelegramExcept(frame, fault) ==
    [frame EXCEPT !.pc = "error_wait", !.caught = fault]

\* Lines 344-348: remove_webhook, a fault of which is only printed.
TelegramRemoveWebhook ==
    /\ Started
    /\ call.telegram.pc = "remove_webhook"
    /\ call' = [call EXCEPT !.telegram.pc = "while"]
    /\ UNCHANGED all_but_call

\* Line 353: while running.
TelegramWhile ==
    /\ Started
    /\ call.telegram.pc = "while"
    /\ call' = [call EXCEPT !.telegram.pc =
                   IF call.tg_running THEN "get_updates" ELSE "stopped",
                            !.telegram.batch = <<>>]
    /\ UNCHANGED all_but_call

\* Line 356: get_updates(offset=0) returns every update not yet confirmed.
TelegramGetUpdates ==
    /\ Started
    /\ call.telegram.pc = "get_updates"
    /\ \E ok \in BOOLEAN :
          call' = [call EXCEPT !.telegram =
                      IF ~ok THEN TelegramExcept(@, "network")
                      ELSE [@ EXCEPT !.pc = "for",
                                     !.batch = Ascending((call.acked + 1)..call.sent)]]
    /\ UNCHANGED all_but_call

\* Lines 359-361 and 368: the next update of the batch, or the sleep.
TelegramFor ==
    /\ Started
    /\ call.telegram.pc = "for"
    /\ call' = IF call.telegram.batch = <<>>
               THEN [call EXCEPT !.telegram.pc = "sleep"]
               ELSE [call EXCEPT !.telegram.upd = Head(call.telegram.batch),
                                 !.telegram.batch = Tail(@),
                                 !.telegram.entry = commands,
                                 !.telegram.pc = "process"]
    /\ UNCHANGED all_but_call

\* Line 362: process_new_updates runs the handler of the command.
TelegramProcess ==
    /\ Started
    /\ call.telegram.pc = "process"
    /\ commands = call.telegram.entry
    /\ Confirm

\* Lines 362-366: the handler returned and the update is confirmed with
\* get_updates(offset=update_id + 1), or the handler or the confirmation
\* raised, which the inner "except Exception" only prints.
TelegramProcessReturn ==
    /\ Started
    /\ call.telegram.pc = "process"
    /\ commands = call.telegram.entry + 1
    /\ \E outcome \in {"ok", "handler_raised", "ack_raised"} :
          call' = [call EXCEPT !.acked = IF outcome = "ok" THEN call.telegram.upd ELSE @,
                               !.telegram.caught = IF outcome = "ok" THEN @ ELSE "handler",
                               !.telegram.pc = "for"]
    /\ UNCHANGED all_but_call

\* Lines 368 and 372-381: the sleep after an iteration and the one after
\* a fault both lead back to the while condition.
TelegramWait ==
    /\ Started
    /\ call.telegram.pc \in {"sleep", "error_wait"}
    /\ call' = [call EXCEPT !.telegram.pc = "while"]
    /\ UNCHANGED all_but_call

NextLoops ==
    \/ start_background_tasks
    \/ cleanup
    \/ Exit
    \/ Arrive
    \/ Send
    \/ EmailWhile
    \/ EmailConnect
    \/ EmailSearch
    \/ EmailFor
    \/ EmailCallback
    \/ EmailCallbackReturn
    \/ EmailWait
    \/ TelegramRemoveWebhook
    \/ TelegramWhile
    \/ TelegramGetUpdates
    \/ TelegramFor
    \/ TelegramProcess
    \/ TelegramProcessReturn
    \/ TelegramWait

SpecLoops == Init /\ [][NextLoops]_vars

\* C19: one bad email does not stop the others: when the callback raises
\* for one unread email of a poll, the poll goes on to the unread emails
\* that follow it in its list and hands them to the callback.
C19_Step ==
    (/\ Started
     /\ call.email.pc = "callback"
     /\ call'.email.pc # "callback"
     /\ cur.raised # "none"
     /\ call.email.batch # <<>>) =>
        /\ call'.email.pc = "for"
        /\ call'.email.batch = call.email.batch
C19_FollowingEmailsHandled == [][C19_Step]_vars

\* C19 witness: the callback raised for the first email of a poll of two;
\* the loop is in its wait after a fault, and the second email was
\* neither fetched nor handed to the callback.
C19_SecondEmailLeftUnhandled ==
    /\ Started
    /\ call.email.pc = "error_wait"
    /\ call.email.caught = "callback"
    /\ call.email.num = 1
    /\ call.email.batch = <<2>>
    /\ 2 \in call.unseen
    /\ polled = 1

\* C20: while the keep-running flag of a loop is true, no fault raised
\* inside an iteration ends the loop: a loop stops only where it reads its
\* flag and finds it false, and after a fault it comes back to its while
\* condition for a later iteration.
C20_Step ==
    (Started /\ call'.fn = call.fn) =>
        /\ (call.email.pc # "stopped" /\ call'.email.pc = "stopped") => ~call.running
        /\ (call.telegram.pc # "stopped" /\ call'.telegram.pc = "stopped") =>
              ~call.tg_running
        /\ call.email.pc = "error_wait" => call'.email.pc \in {"error_wait", "while"}
        /\ call.telegram.pc = "error_wait" =>
              call'.telegram.pc \in {"error_wait", "while"}
C20_LoopsSurviveFaults == [][C20_Step]_vars

\* C20 witness: each loop caught a fault of an iteration, the email loop
\* one raised by the callback, and both are inside a later iteration with
\* the flags still true.
C20_Witness ==
    /\ Started
    /\ call.running /\ call.tg_running
    /\ call.email.caught = "callback"
    /\ call.email.pc = "callback"
    /\ call.email.num = 2
    /\ call.telegram.caught = "network"
    /\ call.telegram.pc = "process"

\* C21: shutdown is cooperative: once cleanup has set the keep-running
\* signal to false, a loop that comes to its while condition, its
\* iteration boundary, sees the signal and terminates instead of starting
\* another iteration; and the process exits only after cleanup has waited
\* for the two threads.
C21_Step ==
    (Started /\ call'.fn = call.fn /\ ~call.running) =>
        /\ (call.email.pc = "while" /\ call'.email.pc # "while") =>
              call'.email.pc = "stopped"
        /\ (call.telegram.pc = "while" /\ call'.telegram.pc # "while") =>
              call'.telegram.pc = "stopped"
        /\ call'.main = "exited" => call.main = "joining"
C21_LoopsObserveShutdown == [][C21_Step]_vars

\* C21 witness: cleanup has cleared the signal and the telegram loop has
\* stopped on it, while the email loop stands at its while condition with
\* the flag it reads there, the one of module src.main, still true.
C21_EmailLoopReadsAnotherFlag ==
    /\ Started
    /\ call.main = "joining"
    /\ ~call.running
    /\ call.telegram.pc = "stopped"
    /\ call.email.pc = "while"
    /\ call.src_main_running

(***************************************************************************)
(* Text functions on their own: each action is one call of a function of   *)
(* rag_service.py, openrouter_service.py, ollama_service.py or             *)
(* email_classifier_service.py on an input drawn from a bounded set; the   *)
(* call and what it returned are kept in call.  Here a text is the         *)
(* sequence of its characters.                                             *)
(***************************************************************************)
Chars == {"a", "b", " ", "\n"}
Texts == UNION {[1..n -> Chars] : n \in 0..MaxText}

RECURSIVE re_split(_)
\* re.split(r'\n\s*\n', s): the leftmost match starts at the first newline
\* that whitespace only separates from a later newline, and, \s* being
\* greedy, ends at the last such newline.
re_split(s) ==
    LET Ends(i) == {j \in (i + 1)..Len(s) :
                       s[j] = "\n" /\ \A k \in (i + 1)..(j - 1) : s[k] \in Whitespace}
        starts == {i \in 1..Len(s) : s[i] = "\n" /\ Ends(i) # {}}
    IN  IF starts = {} THEN <<s>>
        ELSE LET i == CHOOSE x \in starts : \A y \in starts : x <= y
                 j == CHOOSE x \in Ends(i) : \A y \in Ends(i) : y <= x
             IN  <<SubSeq(s, 1, i - 1)>> \o re_split(SubSeq(s, j + 1, Len(s)))

ParagraphBreak == <<"\n", "\n">>

RECURSIVE chunk_loop(_, _, _, _, _)
\* rag_service lines 166-194: the loop over the paragraphs.
chunk_loop(paragraphs, current_chunk, chunks, size, overlap) ==
    IF paragraphs = <<>> THEN [current_chunk |-> current_chunk, chunks |-> chunks]
    ELSE LET para == strip(Head(paragraphs))
             rest == Tail(paragraphs)
         IN  IF para = <<>>
             THEN chunk_loop(rest, current_chunk, chunks, size, overlap)
             ELSE IF Len(current_chunk) + Len(para) > size
             THEN IF current_chunk # <<>>
                  THEN chunk_loop(rest,
                                  IF overlap > 0
                                  THEN Last(current_chunk, overlap) \o ParagraphBreak \o para
                                  ELSE para,
                                  Append(chunks, strip(current_chunk)), size, overlap)
                  ELSE chunk_loop(rest, para, chunks, size, overlap)
             ELSE chunk_loop(rest,
                             IF current_chunk # <<>>
                             THEN current_chunk \o ParagraphBreak \o para
                             ELSE para,
                             chunks, size, overlap)

\* _chunk_text without lines 196-203: the buffer left after the last
\* paragraph is not emitted.
chunk_text_without_last(text, size, overlap) ==
    IF strip(text) = <<>> THEN <<>>
    ELSE chunk_loop(re_split(strip(text)), <<>>, <<>>, size, overlap).chunks

\* _chunk_text (lines 151-205) with RAG_CHUNK_SIZE = size and
\* RAG_CHUNK_OVERLAP = overlap; the result is the contents of the chunks,
\* chunk_id being the position less one.
chunk_text(text, size, overlap) ==
    IF strip(text) = <<>> THEN <<>>
    ELSE LET end == chunk_loop(re_split(strip(text)), <<>>, <<>>, size, overlap)
         IN  IF strip(end.current_chunk) # <<>>
             THEN Append(end.chunks, strip(end.current_chunk))
             ELSE end.chunks

ChunkText ==
    /\ call = NoCall
    /\ \E text \in Texts, size \in 1..MaxChunkSize :
          \E overlap \in 0..(size - 1) :
             call' = [fn |-> "_chunk_text", text |-> text, size |-> size,
                      overlap |-> overlap, chunks |-> chunk_text(text, size, overlap)]
    /\ UNCHANGED all_but_call

\* For search a text is the sequence of its words, lower-cased as lines
\* 225 and 230 do.  "ship" is a substring of "shipping"; "the" is a stop
\* word; "ok" is no stop word but has two letters only.
Words == {"ship", "shipping", "refund", "the", "ok"}
stop_words == {"the"}
ShortWords == {"ok"}
Within(keyword, word) == keyword = word \/ (keyword = "ship" /\ word = "shipping")

Queries == UNION {[1..n -> Words] : n \in 0..MaxQuery}
Contents == {<<"shipping", "refund">>, <<"ship">>, <<"refund">>, <<"the", "ok">>}
Corpora == UNION {[1..n -> Contents] : n \in 0..MaxCorpus}

\* _extract_keywords (lines 246-270).
extract_keywords(text) ==
    SelectSeq(text, LAMBDA w : w \notin stop_words /\ w \notin ShortWords)

RECURSIVE matches(_, _)
\* _score_chunk lines 277-283, counted in halves: 2 for a keyword found
\* in the chunk as a substring, 3 when it is also found as a whole word.
matches(content, keywords) ==
    IF keywords = <<>> THEN 0
    ELSE LET keyword == Head(keywords)
             found == \E i \in 1..Len(content) : Within(keyword, content[i])
             exact == \E i \in 1..Len(content) : content[i] = keyword
         IN  (IF found THEN (IF exact THEN 3 ELSE 2) ELSE 0)
             + matches(content, Tail(keywords))

\* _score_chunk (lines 272-286): matches / len(keywords), given here as
\* the number of halves matched; the divisor is the same for every chunk
\* of a search, so order and sign of the scores are those of the halves.
score_chunk(content, keywords) ==
    IF keywords = <<>> THEN 0 ELSE matches(content, keywords)

RECURSIVE scored_chunks(_, _, _)
\* Lines 228-232: the chunks that score above 0, in the order of
\* self.chunks; a chunk is named by its position there.
scored_chunks(chunks, keywords, i) ==
    IF i > Len(chunks) THEN <<>>
    ELSE (IF score_chunk(chunks[i], keywords) > 0
          THEN <<[chunk |-> i, score |-> score_chunk(chunks[i], keywords)]>>
          ELSE <<>>) \o scored_chunks(chunks, keywords, i + 1)

\* Where list.sort puts x into an already sorted list when equal keys
\* change places.
insert_unstable(sorted, x) ==
    LET before == SelectSeq(sorted, LAMBDA y : y.score > x.score)
        after == SelectSeq(sorted, LAMBDA y : y.score <= x.score)
    IN  before \o <<x>> \o after

\* list.sort(key=score, reverse=True) is stable: x goes behind every
\* element already there whose score is not lower.
insert(sorted, x) ==
    LET before == SelectSeq(sorted, LAMBDA y : y.score >= x.score)
        after == SelectSeq(sorted, LAMBDA y : y.score < x.score)
    IN  before \o <<x>> \o after

RECURSIVE sort(_)
sort(scored) ==
    IF scored = <<>> THEN <<>>
    ELSE insert(sort(SubSeq(scored, 1, Len(scored) - 1)), scored[Len(scored)])

\* search (lines 207-244) on a loaded service; the result is
\* RetrievalResult.chunks with the score of each chunk beside it.
search(chunks, query, top_k) ==
    IF chunks = <<>> THEN <<>>
    ELSE LET ranked == sort(scored_chunks(chunks, extract_keywords(query), 1))
         IN  SubSeq(ranked, 1, IF Len(ranked) < top_k THEN Len(ranked) ELSE top_k)

Search ==
    /\ call = NoCall
    /\ \E chunks \in Corpora, query \in Queries, top_k \in 1..MaxTopK :
          call' = [fn |-> "search", chunks |-> chunks, query |-> query,
                   top_k |-> top_k, ret |-> search(chunks, query, top_k)]
    /\ UNCHANGED all_but_call

\* len(word), and len(content) for words joined by single blanks.
WordLen(w) ==
    CASE w = "ship" -> 4 [] w = "shipping" -> 8 [] w = "refund" -> 6
      [] w = "the" -> 3 [] w = "ok" -> 2

RECURSIVE ContentLen(_)
ContentLen(content) ==
    IF content = <<>> THEN 0
    ELSE WordLen(Head(content)) + (IF Len(content) > 1 THEN 1 ELSE 0)
         + ContentLen(Tail(content))

\* Line 308: f"[From: {chunk.source}]\n{chunk.content}", every chunk
\* being of the document a.md; and its len().
ContextPart(content) == <<"[From: a.md]">> \o content
PartLen(content) == 13 + ContentLen(content)

RECURSIVE context_parts_skipping(_, _, _, _)
RECURSIVE context_parts(_, _, _, _)
\* The loop of lines 307-317 with continue for break: a chunk over
\* the budget is passed over and a later one that fits is taken.
context_parts_skipping(ranked, chunks, current_length, max_tokens) ==
    IF ranked = <<>> THEN <<>>
    ELSE LET content == chunks[Head(ranked).chunk]
         IN  IF current_length + PartLen(content) > 4 * max_tokens
             THEN context_parts_skipping(Tail(ranked), chunks, current_length, max_tokens)
             ELSE <<ContextPart(content)>> \o
                  context_parts_skipping(Tail(ranked), chunks,
                                         current_length + PartLen(content), max_tokens)

\* Lines 304-317: the ranked chunks are taken in order until one would
\* go over max_tokens.  Lengths are in characters, a quarter of a token
\* each, so that len / 4 is exact.
context_parts(ranked, chunks, current_length, max_tokens) ==
    IF ranked = <<>> THEN <<>>
    ELSE LET content == chunks[Head(ranked).chunk]
         IN  IF current_length + PartLen(content) > 4 * max_tokens
             THEN <<>>
             ELSE <<ContextPart(content)>> \o
                  context_parts(Tail(ranked), chunks,
                                current_length + PartLen(content), max_tokens)

RECURSIVE join(_)
\* "\n\n---\n\n".join(context_parts)
join(parts) ==
    IF parts = <<>> THEN <<>>
    ELSE IF Len(parts) = 1 THEN Head(parts)
    ELSE Head(parts) \o <<"---">> \o join(Tail(parts))

\* get_context_for_query (lines 288-322).
get_context_for_query(chunks, query, max_tokens) ==
    LET results == search(chunks, query, 5)
    IN  IF results = <<>> THEN <<>>
        ELSE join(context_parts(results, chunks, 0, max_tokens))

ContextContents == {<<"refund">>, <<"shipping", "refund">>}
ContextCorpora == UNION {[1..n -> ContextContents] : n \in 0..MaxContextCorpus}
ContextQueries == UNION {[1..n -> Words] : n \in 0..MaxContextQuery}
Budgets == {0, 5, 7, 12, 30}

GetContext ==
    /\ call = NoCall
    /\ \E chunks \in ContextCorpora, query \in ContextQueries, max_tokens \in Budgets :
          call' = [fn |-> "get_context_for_query", chunks |-> chunks, query |-> query,
                   max_tokens |-> max_tokens,
                   ret |-> get_context_for_query(chunks, query, max_tokens)]
    /\ UNCHANGED all_but_call

\* The model outputs clean_ai_response is given: an optional think
\* block, an optional prefix, optional greetings, a body and an optional
\* signature, with or without empty lines around the body.
BodyLines == {"Your order ships Monday.", "d1"}
Bodies == UNION {[1..n -> BodyLines] : n \in 1..MaxBody}
ThinkBlocks == {<<>>, <<"<think>", "d1", "</think>">>}
OutputPrefixes == {<<>>} \cup {<<prefixes_to_remove[i]>> : i \in 1..Len(prefixes_to_remove)}
OutputGreetings == {<<>>, <<"Dear Customer,">>, <<"Hi Bob,">>, <<"Dear Customer,", "Hi Bob,">>}
Gaps == {<<>>, <<"\n">>}
TeamSignature(team) == <<"Thanks,", team>>
OutputSignatures ==
    {<<>>, TeamSignature("The StudyFate Team"), TeamSignature("The Brand Team"),
     <<"Best regards,", "Bob">>}

ModelOutput(o) ==
    o.think \o o.prefix \o o.greeting \o o.gap \o o.body \o o.gap \o o.signature

Clean ==
    /\ call = NoCall
    /\ \E o \in [think : ThinkBlocks, prefix : OutputPrefixes, greeting : OutputGreetings,
                  gap : Gaps, body : Bodies, signature : OutputSignatures] :
          call' = [fn |-> "clean_ai_response", output |-> o,
                   ret |-> clean_ai_response(ModelOutput(o))]
    /\ UNCHANGED all_but_call

\* Email bodies for classify_email: short ones and ones about as long as
\* max_body_len, each character told by its place in one of the ways the
\* letters can run.
BodyLengths ==
    (0..MaxShortBody) \cup ((max_body_len - MaxAround)..(max_body_len + MaxAround))
Letters == <<"a", "b", "c">>
EmailBody(n, k) == [i \in 1..n |-> Letters[((i + k) % Len(Letters)) + 1]]
EmailBodies == {EmailBody(n, k) : n \in BodyLengths, k \in 1..Len(Letters)}

TruncateBody ==
    /\ call = NoCall
    /\ \E body \in EmailBodies :
          call' = [fn |-> "classify_email", body |-> body,
                   truncated_body |-> truncated_body(body)]
    /\ UNCHANGED all_but_call

\* Chunking, draft cleaning and the truncation of a classified body, each
\* on its own.
NextText ==
    \/ ChunkText
    \/ Clean
    \/ TruncateBody

SpecText == Init /\ [][NextText]_vars

\* Retrieval on its own: search and the context built from it.
NextSearch ==
    \/ Search
    \/ GetContext

SpecSearch == Init /\ [][NextSearch]_vars

IsSubstring(x, s) ==
    \E i \in 0..(Len(s) - Len(x)) : SubSeq(s, i + 1, i + Len(x)) = x

\* C22: every chunk _chunk_text produces is a substring of the document
\* and is at most the chunk size long, for every document.
C22_ChunksAreBoundedSubstrings ==
    call.fn = "_chunk_text" =>
        \A i \in 1..Len(call.chunks) :
            /\ IsSubstring(call.chunks[i], call.text)
            /\ Len(call.chunks[i]) <= call.size

\* C22 case reached: a document of one paragraph longer than the chunk
\* size, with an overlap greater than 0, comes back as one chunk, whole.
C22_LongParagraphKeptWhole ==
    /\ call.fn = "_chunk_text"
    /\ call.text = <<"a", "b", "a">>
    /\ call.size = 2
    /\ call.overlap = 1
    /\ call.chunks = <<call.text>>

\* C23: with an overlap O greater than 0 and less than the chunk size,
\* every chunk after the first begins with exactly the trailing O
\* characters of the chunk before it (with all of it, if that chunk is
\* shorter than O).
C23_ChunksOverlap ==
    (call.fn = "_chunk_text" /\ call.overlap > 0) =>
        \A i \in 2..Len(call.chunks) :
            LET trailing == Last(call.chunks[i - 1], call.overlap)
            IN  /\ Len(call.chunks[i]) >= Len(trailing)
                /\ SubSeq(call.chunks[i], 1, Len(trailing)) = trailing

\* C23 case reached: the trailing two characters of the first chunk are
\* " b", and the second chunk begins with "b" and the paragraph break.
C23_OverlapLosesItsBlank ==
    /\ call.fn = "_chunk_text"
    /\ call.text = <<"a", " ", "b", "\n", "\n", "a">>
    /\ call.size = 3
    /\ call.overlap = 2
    /\ call.chunks = << <<"a", " ", "b">>, <<"b", "\n", "\n", "a">> >>

\* The paragraphs of a document: the non-blank pieces between its blank
\* lines, trimmed.
Paragraphs(text) ==
    SelectSeq([i \in 1..Len(re_split(strip(text))) |-> strip(re_split(strip(text))[i])],
              LAMBDA para : para # <<>>)

RECURSIVE JoinParagraphs(_)
JoinParagraphs(paras) ==
    IF Len(paras) = 1 THEN Head(paras)
    ELSE Head(paras) \o ParagraphBreak \o JoinParagraphs(Tail(paras))

IsSuffix(x, s) == Len(x) <= Len(s) /\ Last(s, Len(x)) = x /\ x # <<>>

RECURSIVE Covers(_, _, _)
\* The chunks hold the paragraphs in order, each chunk a run of whole
\* paragraphs after whatever overlap was put in front of it; the first
\* chunk has nothing in front.
Covers(chunks, paras, first) ==
    IF chunks = <<>> THEN paras = <<>>
    ELSE \E n \in 1..Len(paras) :
            /\ IF first
               THEN Head(chunks) = JoinParagraphs(SubSeq(paras, 1, n))
               ELSE IsSuffix(JoinParagraphs(SubSeq(paras, 1, n)), Head(chunks))
            /\ Covers(Tail(chunks), SubSeq(paras, n + 1, Len(paras)), FALSE)

\* C24: chunking drops nothing: taking the overlap off the front of each
\* chunk and putting the chunks one after another gives the paragraphs of
\* the document, each whole and in source order, the last paragraph at
\* the end of the last chunk.
C24_ChunkingDropsNothing ==
    call.fn = "_chunk_text" =>
        Covers(call.chunks, Paragraphs(call.text), TRUE)

\* C24 witness: a document of two paragraphs cut into two chunks, the
\* second one made of an overlap and the last paragraph.
C24_Witness ==
    /\ call.fn = "_chunk_text"
    /\ call.overlap > 0
    /\ Len(Paragraphs(call.text)) = 2
    /\ Len(call.chunks) = 2
    /\ Len(call.chunks[2]) > Len(Paragraphs(call.text)[2])
    /\ IsSuffix(Paragraphs(call.text)[2], call.chunks[2])

\* C26: search returns at most top_k chunks, each with a score above 0,
\* highest score first, chunks of equal score in the order they have in
\* self.chunks; a chunk none of the query's keywords occurs in is not
\* returned, and a query with no keyword returns nothing.
C26_SearchRanksMatches ==
    call.fn = "search" =>
        LET keywords == extract_keywords(call.query)
        IN  /\ Len(call.ret) <= call.top_k
            /\ \A i \in 1..Len(call.ret) :
                  /\ call.ret[i].score > 0
                  /\ call.ret[i].score = score_chunk(call.chunks[call.ret[i].chunk], keywords)
                  /\ \E k \in 1..Len(keywords), w \in 1..Len(call.chunks[call.ret[i].chunk]) :
                        Within(keywords[k], call.chunks[call.ret[i].chunk][w])
            /\ \A i \in 1..Len(call.ret), j \in 1..Len(call.ret) :
                  i < j =>
                     \/ call.ret[i].score > call.ret[j].score
                     \/ /\ call.ret[i].score = call.ret[j].score
                        /\ call.ret[i].chunk < call.ret[j].chunk
            /\ keywords = <<>> => call.ret = <<>>

\* C26 witness: three chunks match, two of them with the same score; the
\* two returned are the best one, third in self.chunks, and the earlier
\* of the two equal ones.
C26_Witness ==
    /\ call.fn = "search"
    /\ call.query = <<"ship", "the">>
    /\ call.chunks = << <<"shipping", "refund">>, <<"shipping", "refund">>, <<"ship">> >>
    /\ call.top_k = 2
    /\ call.ret = <<[chunk |-> 3, score |-> 3], [chunk |-> 1, score |-> 2]>>

\* The chunks search ranks first, at most five of them.
TopFive(chunks, query) == search(chunks, query, 5)

RECURSIVE SumLen(_, _, _)
\* The estimated length of the first n ranked chunks, in characters.
SumLen(ranked, chunks, n) ==
    IF n = 0 THEN 0
    ELSE PartLen(chunks[ranked[n].chunk]) + SumLen(ranked, chunks, n - 1)

\* C27: get_context_for_query returns the longest prefix of the five
\* best-ranked chunks whose estimated lengths, at four characters a token,
\* add up to no more than the budget, so it stops at the first chunk that
\* would go over it whatever comes after; and it returns the empty string
\* when no chunk matched.
C27_ContextIsGreedyPrefix ==
    call.fn = "get_context_for_query" =>
        LET ranked == TopFive(call.chunks, call.query)
            fits == {n \in 0..Len(ranked) :
                        SumLen(ranked, call.chunks, n) <= 4 * call.max_tokens}
            longest == CHOOSE n \in fits : \A m \in fits : m <= n
        IN  /\ call.ret =
                  join([i \in 1..longest |-> ContextPart(call.chunks[ranked[i].chunk])])
            /\ ranked = <<>> => call.ret = <<>>

\* C27 witness: the best-ranked chunk is over the budget and the second,
\* smaller one would fit; nothing is returned.
C27_Witness ==
    /\ call.fn = "get_context_for_query"
    /\ call.query = <<"refund">>
    /\ call.chunks = << <<"shipping", "refund">>, <<"refund">> >>
    /\ call.max_tokens = 5
    /\ TopFive(call.chunks, call.query)[1].chunk = 1
    /\ TopFive(call.chunks, call.query)[2].chunk = 2
    /\ PartLen(call.chunks[2]) <= 4 * call.max_tokens
    /\ call.ret = <<>>

\* The model output of the example, with the signature of the given team.
Example(team) ==
    [think |-> <<>>, prefix |-> <<"Here's an improved response:">>,
     greeting |-> <<"Dear Customer,">>, gap |-> <<"\n">>,
     body |-> <<"Your order ships Monday.">>, signature |-> TeamSignature(team)]

\* C28 as stated: the output made of the prefix "Here's an improved
\* response:", the greeting line "Dear Customer,", the body "Your order
\* ships Monday." and the signature "Thanks," / "The Brand Team" cleans to
\* exactly the body.
C28_BrandExampleCleansToBody ==
    (call.fn = "clean_ai_response" /\ call.output = Example("The Brand Team")) =>
        call.ret = <<"Your order ships Monday.">>

\* C28, amended: an output made of a listed prefix, the greeting line
\* "Dear Customer,", a body and the signature "Thanks," / "The StudyFate
\* Team", with or without a think block in front and empty lines around
\* the body, cleans to exactly the body.
C28_StudyFateOutputCleansToBody ==
    (/\ call.fn = "clean_ai_response"
     /\ call.output.prefix # <<>>
     /\ call.output.greeting = <<"Dear Customer,">>
     /\ call.output.signature = TeamSignature("The StudyFate Team")) =>
        call.ret = call.output.body

\* C28 witness: the example with the signature of the StudyFate team
\* behind a think block, cleaned to its body.
C28_Witness ==
    /\ call.fn = "clean_ai_response"
    /\ call.output = [Example("The StudyFate Team") EXCEPT
                         !.think = <<"<think>", "d1", "</think>">>]
    /\ call.ret = <<"Your order ships Monday.">>

\* C30 as stated: the body text in the prompt is exactly the first
\* min(len(body), 1500) characters of the body, with nothing added, for
\* every body length.
C30_PromptBodyIsPrefixOnly ==
    call.fn = "classify_email" =>
        call.truncated_body =
            SubSeq(call.body, 1, IF Len(call.body) < max_body_len
                                 THEN Len(call.body) ELSE max_body_len)

\* C30, amended: a body of at most 1500 characters goes into the prompt as
\* it is; of a longer one the prompt gets the first 1500 characters
\* followed by three dots, 1503 characters in all.
C30_PromptBodyIsPrefixThenDots ==
    call.fn = "classify_email" =>
        LET body == call.body
            out == call.truncated_body
        IN  /\ Len(body) <= 1500 => out = body
            /\ Len(body) > 1500 =>
                  /\ Len(out) = 1503
                  /\ \A i \in 1..1500 : out[i] = body[i]
                  /\ \A i \in 1501..1503 : out[i] = "."

\* C30 witness: a body of 1501 characters was classified and 1503
\* characters went into the prompt.
C30_Witness ==
    /\ call.fn = "classify_email"
    /\ Len(call.body) = 1501
    /\ Len(call.truncated_body) = 1503

(***************************************************************************)
(* Further properties of the drafts (specification SpecDrafts).            *)
(***************************************************************************)
\* C31: when the call for the draft of a new email failed, handle_new_email
\* persists no draft for the ticket, stores no pending draft for it, and
\* forwards it without a draft, so that the ticket becomes
\* forwarded_to_support: the text generate_ai_response returns on failure
\* is never made a draft.
C31_Step ==
    /\ (epc = "draft" /\ epc' = "forward" /\ cur'.draft = ApologyText) =>
          drafts' = drafts
    /\ (epc = "forward" /\ epc' = "forward_status" /\ cur.draft = ApologyText) =>
          pending_confirmations' = pending_confirmations
    /\ (epc = "forward_status" /\ epc' = "idle" /\ cur.draft = ApologyText
            /\ Exists(tickets, cur.ticket_id)) =>
          Status(cur.ticket_id)' = "forwarded_to_support"
C31_PlaceholderIsNoDraft == [][C31_Step]_vars

\* C31 witness: the call for the draft of a new email failed; the ticket
\* waited for confirmation with the apology as its draft, and a confirm
\* has mailed the apology to the customer.
C31_ApologyConfirmed ==
    \E id \in TicketIds :
        /\ Exists(tickets, id)
        /\ get_draft_response(drafts, id) = ApologyText
        /\ result = "sent"
        /\ outbox # <<>>
        /\ LastMail(outbox) = [to |-> tickets[id].from_email, kind |-> "response",
                               ticket_id |-> id, body |-> Wrap(ApologyText)]

(***************************************************************************)
(* Further properties of the ticket lifecycle (specification Spec).        *)
(***************************************************************************)
\* C32: a confirm, edit or reply that delivered a response email and told
\* the operator it was sent leaves the ticket responded, with that
\* response as the last one recorded for it.
C32_Step ==
    \A id \in TicketIds :
        (CommandStep /\ DeliveredNow(id) /\ result' = "sent") =>
            /\ Status(id)' = "responded"
            /\ Len(responses') = Len(responses) + 1
            /\ responses'[Len(responses')] =
                  [ticket_id |-> id, response_text |-> LastMail(outbox').body]
C32_SentMeansRecorded == [][C32_Step]_vars

\* C32 witness: the response for a ticket was delivered, the operator was
\* told it was sent and the pending draft is cleared, while the ticket
\* waits for confirmation and no response is recorded for it.
C32_SentButNotRecorded ==
    \E id \in TicketIds :
        /\ result = "sent"
        /\ ResponseMailsFor(outbox, id) # <<>>
        /\ pending_confirmations[id] = None
        /\ Status(id) = "pending_confirmation"
        /\ ResponsesOf(responses, id) = <<>>

\* C37: a confirm or edit whose email was not delivered leaves the pending
\* draft, the persisted draft, the ticket, the responses and the outbox as
\* they were, so the draft a confirm would send is the same after it.
C37_Step ==
    \A id \in TicketIds :
        (/\ Exists(tickets, id)
         /\ \/ handle_confirm(id)
            \/ \E completion \in LaterCompletions : handle_edit(id, completion)
         /\ outbox' = outbox) =>
            /\ pending_confirmations' = pending_confirmations
            /\ drafts' = drafts
            /\ tickets' = tickets
            /\ responses' = responses
            /\ DraftFor(id)' = DraftFor(id)
            /\ result' \in {"send_failed", "no_pending_draft"}
C37_FailedDeliveryKeepsDraft == [][C37_Step]_vars

\* C37 witness: the mail of a confirm or edit was refused; the ticket still
\* waits for confirmation with the draft d1 in memory and persisted, and
\* nothing but the acknowledgment has left.
C37_Witness ==
    \E id \in TicketIds :
        /\ result = "send_failed"
        /\ commands > 0
        /\ Status(id) = "pending_confirmation"
        /\ get_pending_confirmation(pending_confirmations, id) = <<"d1">>
        /\ get_draft_response(drafts, id) = <<"d1">>
        /\ ResponsesOf(responses, id) = <<>>
        /\ ResponseEmails(outbox) = <<>>

(***************************************************************************)
(* Further properties of the intake (specification SpecIntake).            *)
(***************************************************************************)
\* C33: a step of handle_new_email for one email leaves every ticket that
\* was created for another email as it was, status and content, also when
\* save_ticket failed for the email being handled.
C33_Step ==
    \A id \in TicketIds :
        (/\ epc # "idle"
         /\ Exists(tickets, id)
         /\ tickets[id].from_email # cur.from_email) =>
            tickets'[id] = tickets[id]
C33_OtherTicketsUntouched == [][C33_Step]_vars

\* C33 witness: the first email was forwarded to the operator; the second
\* email, given the same id, went the archive path and its handling has
\* set the first email's ticket to archived.
C33_OtherTicketArchived ==
    /\ epc = "idle"
    /\ cur.from_email = 2
    /\ Exists(tickets, cur.ticket_id)
    /\ tickets[cur.ticket_id].from_email = 1
    /\ tickets[cur.ticket_id].status = "archived"
    /\ \E i \in 1..Len(chat) :
          chat[i].kind \in {"forward", "forward_with_draft"} /\ chat[i].from_email = 1

\* An email the filter does not drop: filtering is off, or the
\* classification is not spam, promotion, newsletter or marked for
\* deletion.
NotFilterable(email) ==
    /\ email # NoEmail
    /\ email.raised = "none"
    /\ ~(AUTO_FILTER_ENABLED /\ is_spam_or_promotion(email.cls))

\* C34: once handle_new_email has returned for an email that is not
\* filterable, a ticket created for that email is persisted, also when the
\* email before it was handled in the same clock second.
C34_HandledEmailHasTicket ==
    (epc = "idle" /\ NotFilterable(cur)) =>
        \E id \in TicketIds :
            Exists(tickets, id) /\ tickets[id].from_email = cur.from_email

\* C34 witness: the second email asked for a response and was handled in
\* the second of the first; the id is taken by the first email's ticket,
\* and the handler has returned with no ticket, acknowledgment or forward
\* for the second email.
C34_SecondEmailLost ==
    /\ epc = "idle"
    /\ cur.from_email = 2
    /\ NotFilterable(cur)
    /\ needs_response(cur.cls)
    /\ Exists(tickets, cur.ticket_id)
    /\ tickets[cur.ticket_id].from_email = 1
    /\ \A i \in 1..Len(chat) : chat[i].from_email # 2
    /\ \A i \in 1..Len(outbox) : outbox[i].to # 2

\* C35: whenever a ticket has an in-memory pending draft and a persisted
\* draft, the two hold the same text.
C35_PersistedDraftMirrorsPending ==
    \A id \in TicketIds :
        (/\ get_pending_confirmation(pending_confirmations, id) # None
         /\ get_draft_response(drafts, id) # None) =>
            get_pending_confirmation(pending_confirmations, id) =
                get_draft_response(drafts, id)

\* C35 witness: the draft d1 of a new email was persisted and stored as
\* pending, and a regenerate command has just put d2 in memory while the
\* persisted draft is still d1.
C35_RegeneratedOnlyInMemory ==
    \E id \in TicketIds :
        /\ result = "new_draft"
        /\ Status(id) = "pending_confirmation"
        /\ get_pending_confirmation(pending_confirmations, id) = <<"d2">>
        /\ get_draft_response(drafts, id) = <<"d1">>

\* The tickets created for an email.
TicketsOf(email) ==
    {id \in TicketIds : Exists(tickets, id) /\ tickets[id].from_email = email.from_email}

\* Nothing was mailed to the sender of the email, and the operator was
\* shown nothing about it.
NoAckNoForward(email) ==
    /\ \A i \in 1..Len(outbox) : outbox[i].to # email.from_email
    /\ \A i \in 1..Len(chat) : chat[i].from_email # email.from_email
    /\ email.draft = None

\* The archive path is taken exactly for an email that, with filtering
\* on, is not filterable and needs no response, and such an email is
\* neither acknowledged, nor drafted for, nor forwarded; with filtering
\* off no email is classified and none goes the archive path.
ArchiveRouting ==
    /\ (AUTO_FILTER_ENABLED /\ NotFilterable(cur) /\ ~needs_response(cur.cls)) =>
          /\ epc \in {"archive_save", "archive_status", "idle"}
          /\ NoAckNoForward(cur)
    /\ epc \in {"archive_save", "archive_status"} =>
          AUTO_FILTER_ENABLED /\ NotFilterable(cur) /\ ~needs_response(cur.cls)
    /\ (~AUTO_FILTER_ENABLED /\ cur # NoEmail) =>
          cur.cls = Unclassified /\ needs_response(cur.cls)

\* C39: with filtering on, a non-filterable email whose classification
\* has should_respond false has, once handled, exactly one ticket, with
\* status archived, and no acknowledgment, draft or forward; with
\* filtering off every email goes the respond path.
C39_ArchivedExactlyOnce ==
    /\ ArchiveRouting
    /\ (epc = "idle" /\ AUTO_FILTER_ENABLED /\ NotFilterable(cur)
            /\ ~needs_response(cur.cls)) =>
          /\ Cardinality(TicketsOf(cur)) = 1
          /\ \A id \in TicketsOf(cur) : Status(id) = "archived"

\* C39 witness: two emails that need no response were handled in the same
\* second; the second has no ticket, the ticket of the first, archived,
\* holds the id.
C39_SecondArchiveHasNoTicket ==
    /\ epc = "idle"
    /\ AUTO_FILTER_ENABLED
    /\ cur.from_email = 2
    /\ NotFilterable(cur)
    /\ ~needs_response(cur.cls)
    /\ TicketsOf(cur) = {}
    /\ Exists(tickets, cur.ticket_id)
    /\ tickets[cur.ticket_id].from_email = 1
    /\ Status(cur.ticket_id) = "archived"
    /\ NoAckNoForward(cur)

(***************************************************************************)
(* Further properties of the polling loops (specification SpecLoops).      *)
(***************************************************************************)
\* C36: telegram_polling_loop hands each update to its handler at most
\* once.  Updates are numbered 1, 2, ... as the operator sends them and
\* are handed over in that order, so the update taken from a batch must
\* have a number above the count of updates handed over so far.
C36_Step ==
    (Started /\ call'.fn = call.fn
        /\ call.telegram.pc = "for" /\ call'.telegram.pc = "process") =>
            call'.telegram.upd > commands
C36_UpdateDispatchedOnce == [][C36_Step]_vars

\* C36 witness: the operator sent one command; its handler ran and
\* answered, the update was not confirmed, and the next poll has handed
\* the same update to the handler a second time.
C36_UpdateDispatchedAgain ==
    /\ Started
    /\ call.sent = 1
    /\ call.acked = 0
    /\ call.telegram.upd = 1
    /\ call.telegram.pc = "process"
    /\ commands = 2
    /\ result # NoResult

(***************************************************************************)
(* Further properties of the classification (specification SpecClassify).  *)
(***************************************************************************)
\* C38: classify_email gives should_delete true only when the JSON of the
\* model carries should_delete as the boolean true; for a missing field,
\* null, 0 or a string such as "false" the classification has should_delete
\* false.
C38_DeleteOnlyOnBooleanTrue ==
    (cur # NoEmail /\ cur.raised = "none" /\ cur.cls.should_delete) =>
        cur.llm.should_delete = "true"

\* C38 witness: the model answered a support request that asks for a
\* response, with should_delete given as the string "false"; the
\* classification has should_delete true and the email was filtered out,
\* with no ticket.
C38_StringFalseDeletes ==
    /\ cur # NoEmail
    /\ cur.llm.category = "support_request"
    /\ cur.llm.should_respond = "true"
    /\ cur.llm.should_delete = "strfalse"
    /\ cur.cls.category = "support_request"
    /\ cur.cls.should_delete
    /\ epc = "idle"
    /\ chat # <<>>
    /\ chat[Len(chat)].kind = "filtered"
    /\ \A id \in TicketIds : ~Exists(tickets, id)

=============================================================================
